---- MODULE Spec2Model ----
(***************************************************************************)
(* Model of the quiz application's credential handling (db.py) and of the  *)
(* quiz submission handler (main.py).                                      *)
(*                                                                         *)
(* Python strings are sequences of one-character strings, so that          *)
(* startswith, split, strip, upper, bytes.hex and bytes.fromhex are        *)
(* computed character by character. Bytes are numbers in 0..255.           *)
(***************************************************************************)
EXTENDS Integers, Sequences, FiniteSets, TLC

VARIABLES
    \* ---- credential helpers driven as pure functions (SpecCred)
    password,      \* the password handed to _hash_password
    candidate,     \* the password handed to _verify_password
    stored,        \* the stored representation handed to _verify_password
    hashes,        \* the calls of _hash_password(password) so far: [salt, out]
    verified,      \* outcome of the last _verify_password(candidate, stored)
    \* ---- users table and the two user operations (SpecAuth)
    users,         \* rows of the users table
    next_user_id,  \* the id the users sequence hands out next
    auth_result,   \* what the last create_user / authenticate_user returned
    \* ---- scoring driven as a pure function (SpecScore)
    sc_questions,  \* the question list handed to the scoring loop
    sc_answers,    \* the answers mapping handed to the scoring loop
    scored,        \* what the scoring loop computed, or NoScore
    \* ---- the main window and the database behind it (Spec)
    conn,          \* db._conn: "none", "open" or "closed"
    current_user,  \* QuizApp.current_user: NoUser or <<id, name>>
    page,          \* the widget the QStackedWidget shows
    dashboard_page,\* QuizApp.dashboard_page: "none", or a widget that is
                   \* "stacked" or was "removed" from the stack
    quiz_attempts, \* rows of quiz_attempts, in insertion order
    quiz_attempt_answers, \* rows of quiz_attempt_answers, in insertion order
    next_attempt_id,      \* the id the quiz_attempts sequence hands out next
    calls,         \* the database calls on_quiz_completed made last time
    raised,        \* the exception the last on_quiz_completed or load_quiz
                   \* let escape, or "none"
    results_page,  \* the results dict the results page was loaded with
    submissions,   \* the number of quiz_completed signals handled
    last_signal,   \* the last quiz_completed signal: its results dict and
                   \* current_user when it arrived (not program state)
    \* ---- what the result screen and the dashboard show (SpecResults)
    score_data,    \* what ResultsWidget.calculate_score returned last
    attempt_stats, \* what DatabaseManager.get_attempt_stats returned last
    \* ---- the navigation handlers of the main window (SpecNav)
    last_nav,      \* the navigation handler that ran last and the exception
                   \* it let escape (not program state)
    \* ---- the quiz page (SpecQuiz)
    quiz_category_id, \* QuizWidget.category_id (0 for None)
    quiz_questions,   \* QuizWidget.questions
    current_index,    \* QuizWidget.current_index
    quiz_answers,     \* QuizWidget.answers
    checked,          \* button_group.checkedId(): -1 or the radio checked
    quiz_enabled,     \* whether next_btn and the radio buttons are enabled
    prev_enabled,     \* whether prev_btn is enabled
    emitted,          \* quiz_completed signals emitted since the last
                      \* load_quiz (not program state)
    sessions,         \* the number of load_quiz calls (not program state)
    \* ---- the connection and the statements sent over it (SpecDb)
    db_result,        \* what the last DatabaseManager call returned
    question_rows,    \* rows of the questions table, by id
    next_question_id  \* the id the questions sequence hands out next

credVars == <<password, candidate, stored, hashes, verified>>
authVars == <<users, next_user_id, auth_result>>
scoreVars == <<sc_questions, sc_answers, scored>>
appVars == <<conn, current_user, page, dashboard_page, quiz_attempts,
             quiz_attempt_answers, next_attempt_id, calls, raised,
             results_page, submissions, last_signal>>
viewVars == <<score_data, attempt_stats>>
navVars == <<last_nav>>
quizVars == <<quiz_category_id, quiz_questions, current_index, quiz_answers,
              checked, quiz_enabled, prev_enabled, emitted, sessions>>
dbVars == <<db_result, question_rows, next_question_id>>
vars == <<credVars, authVars, scoreVars, appVars, viewVars, navVars, quizVars,
          dbVars>>

-----------------------------------------------------------------------------
(* Characters and strings *)

\* The printable ASCII characters, code 32 to 126, in code order (the grave
\* accent, code 96, is written out: it is no character of any string here).
Printable ==
    <<" ", "!", "\"", "#", "$", "%", "&", "'", "(", ")", "*", "+", ",", "-",
      ".", "/", "0", "1", "2", "3", "4", "5", "6", "7", "8", "9", ":", ";",
      "<", "=", ">", "?", "@", "A", "B", "C", "D", "E", "F", "G", "H", "I",
      "J", "K", "L", "M", "N", "O", "P", "Q", "R", "S", "T", "U", "V", "W",
      "X", "Y", "Z", "[", "\\", "]", "^", "_", "GRAVE", "a", "b", "c", "d", "e",
      "f", "g", "h", "i", "j", "k", "l", "m", "n", "o", "p", "q", "r", "s",
      "t", "u", "v", "w", "x", "y", "z", "{", "|", "}", "~">>

\* ord(c) and chr(n) of an ASCII character; tab and newline are the two
\* control characters the model knows.
OrdTable ==
    [c \in {Printable[i] : i \in 1..Len(Printable)} \cup {"\t", "\n"} |->
        IF c = "\t" THEN 9
        ELSE IF c = "\n" THEN 10
        ELSE 31 + (CHOOSE i \in 1..Len(Printable) : Printable[i] = c)]

Ord(c) == OrdTable[c]

Chr(n) ==
    IF n = 9 THEN "\t" ELSE IF n = 10 THEN "\n" ELSE Printable[n - 31]

\* str.isspace of one character.
IsSpace(c) == c \in {" ", "\t", "\n"}

\* str.upper of one character.
UpperChar(c) == IF Ord(c) >= 97 /\ Ord(c) <= 122 THEN Chr(Ord(c) - 32) ELSE c

\* str.upper.
Upper(s) == [i \in 1..Len(s) |-> UpperChar(s[i])]

RECURSIVE LStrip(_)
LStrip(s) ==
    IF s # <<>> /\ IsSpace(Head(s)) THEN LStrip(Tail(s)) ELSE s

RECURSIVE RStrip(_)
RStrip(s) ==
    IF s # <<>> /\ IsSpace(s[Len(s)])
    THEN RStrip(SubSeq(s, 1, Len(s) - 1))
    ELSE s

\* str.strip.
Strip(s) == RStrip(LStrip(s))

\* str.startswith.
StartsWith(s, prefix) ==
    /\ Len(s) >= Len(prefix)
    /\ SubSeq(s, 1, Len(prefix)) = prefix

\* The index of the first sep in s at or after from, or 0.
Find(s, sep, from) ==
    LET hits == {i \in from..Len(s) : s[i] = sep} IN
    IF hits = {} THEN 0 ELSE CHOOSE i \in hits : \A j \in hits : i <= j

\* str.split(sep, maxsplit) for a one-character separator.
RECURSIVE Split(_, _, _)
Split(s, sep, maxsplit) ==
    LET at == Find(s, sep, 1) IN
    IF maxsplit = 0 \/ at = 0 THEN <<s>>
    ELSE <<SubSeq(s, 1, at - 1)>>
         \o Split(SubSeq(s, at + 1, Len(s)), sep, maxsplit - 1)

RECURSIVE Concat(_)
Concat(parts) ==
    IF parts = <<>> THEN <<>> ELSE Head(parts) \o Concat(Tail(parts))

-----------------------------------------------------------------------------
(* Bytes and hexadecimal text *)

HexDigits ==
    <<"0", "1", "2", "3", "4", "5", "6", "7", "8", "9",
      "a", "b", "c", "d", "e", "f">>

\* bytes.hex: two lower-case digits per byte.
Hex(bytes) ==
    Concat([i \in 1..Len(bytes) |->
              <<HexDigits[(bytes[i] \div 16) + 1],
                HexDigits[(bytes[i] % 16) + 1]>>])

\* The value of a hexadecimal digit of either case, 16 for any other
\* character.
HexVal(c) ==
    LET n == Ord(c) IN
    IF n >= 48 /\ n <= 57 THEN n - 48
    ELSE IF n >= 97 /\ n <= 102 THEN n - 87
    ELSE IF n >= 65 /\ n <= 70 THEN n - 55
    ELSE 16

\* bytes.fromhex: white space is skipped before each pair of digits and at
\* the end, a pair is two adjacent digits of either case, anything else is a
\* ValueError.
RECURSIVE FromHex(_)
FromHex(s) ==
    IF s = <<>> THEN [ok |-> TRUE, bytes |-> <<>>]
    ELSE IF IsSpace(Head(s)) THEN FromHex(Tail(s))
    ELSE IF Len(s) < 2 \/ HexVal(s[1]) = 16 \/ HexVal(s[2]) = 16
         THEN [ok |-> FALSE, bytes |-> <<>>]
    ELSE LET rest == FromHex(SubSeq(s, 3, Len(s))) IN
         IF rest.ok
         THEN [ok |-> TRUE,
               bytes |-> <<16 * HexVal(s[1]) + HexVal(s[2])>> \o rest.bytes]
         ELSE rest

\* str.encode("utf-8") of an ASCII string.
EncodeUtf8(s) == [i \in 1..Len(s) |-> Ord(s[i])]

RECURSIVE SumBytes(_)
SumBytes(bytes) ==
    IF bytes = <<>> THEN 0 ELSE Head(bytes) + SumBytes(Tail(bytes))

-----------------------------------------------------------------------------
(* Password hashing helpers (db.py) *)

\* os.urandom(16): the number of salt bytes.
SaltLen == 16

\* The number of bytes hashlib.pbkdf2_hmac("sha256", ...) returns.
DkLen == 32

\* "pbkdf2_sha256"
TagName ==
    <<"p", "b", "k", "d", "f", "2", "_", "s", "h", "a", "2", "5", "6">>

\* "pbkdf2_sha256$"
TagPrefix == TagName \o <<"$">>

\* hashlib.pbkdf2_hmac("sha256", pw, salt, 200_000), as a function that is
\* injective in pw for a fixed salt and depends on the salt: the length of
\* pw, then its bytes, then zeros, each shifted by the sum of the salt bytes.
\* It is total: an empty salt and an empty password are accepted.
Pbkdf2(pw, salt) ==
    [i \in 1..DkLen |->
        ((IF i = 1 THEN Len(pw)
          ELSE IF i - 1 <= Len(pw) THEN pw[i - 1]
          ELSE 0) + SumBytes(salt)) % 256]

\* A plausible slip: the key is derived without the salt.
HashPasswordUnsalted(pw, salt) ==
    TagPrefix \o Hex(salt) \o <<"$">> \o Hex(Pbkdf2(EncodeUtf8(pw), <<>>))

\* A plausible slip: a constant salt instead of the drawn one.
HashPasswordFixedSalt(pw, salt) ==
    LET zeros == [i \in 1..SaltLen |-> 0] IN
    TagPrefix \o Hex(zeros) \o <<"$">> \o Hex(Pbkdf2(EncodeUtf8(pw), zeros))

\* DatabaseManager._hash_password, salt being the draw of os.urandom(16).
_hash_password(pw, salt) ==
    TagPrefix \o Hex(salt) \o <<"$">> \o Hex(Pbkdf2(EncodeUtf8(pw), salt))

\* The body of the try block of _verify_password: what it returns, or that it
\* raised (the unpacking of a split that has not three parts, bytes.fromhex).
VerifyTagged(pw, st) ==
    LET parts == Split(st, "$", 2) IN
    IF Len(parts) # 3 THEN [raised |-> TRUE, value |-> FALSE]
    ELSE LET salt == FromHex(parts[2])
             expected == FromHex(parts[3])
         IN  IF ~salt.ok \/ ~expected.ok
             THEN [raised |-> TRUE, value |-> FALSE]
             ELSE [raised |-> FALSE,
                   value |-> Pbkdf2(EncodeUtf8(pw), salt.bytes) = expected.bytes]

\* A plausible slip: the keys are compared by length only.
VerifyPasswordLengthOnly(pw, st) ==
    IF StartsWith(st, TagPrefix)
    THEN LET parts == Split(st, "$", 2) IN
         IF Len(parts) # 3 \/ ~FromHex(parts[2]).ok \/ ~FromHex(parts[3]).ok
         THEN [raised |-> FALSE, value |-> FALSE]
         ELSE [raised |-> FALSE,
               value |-> Len(FromHex(parts[3]).bytes) = DkLen]
    ELSE [raised |-> FALSE, value |-> pw = st]

\* A plausible slip: the legacy comparison ignores case.
VerifyPasswordLegacyNoCase(pw, st) ==
    IF StartsWith(st, TagPrefix)
    THEN LET r == VerifyTagged(pw, st) IN
         IF r.raised THEN [raised |-> FALSE, value |-> FALSE] ELSE r
    ELSE [raised |-> FALSE, value |-> Upper(pw) = Upper(st)]

\* A plausible slip: no try/except around the parsing.
VerifyPasswordNoExcept(pw, st) ==
    IF StartsWith(st, TagPrefix)
    THEN VerifyTagged(pw, st)
    ELSE [raised |-> FALSE, value |-> pw = st]

\* DatabaseManager._verify_password: [raised, value].
_verify_password(pw, st) ==
    IF StartsWith(st, TagPrefix)
    THEN LET r == VerifyTagged(pw, st) IN
         IF r.raised THEN [raised |-> FALSE, value |-> FALSE] ELSE r
    ELSE [raised |-> FALSE, value |-> pw = st]

-----------------------------------------------------------------------------
(* The values of the variables a specification does not use *)

NotVerified ==
    [done |-> FALSE, password |-> <<>>, stored |-> <<>>,
     raised |-> FALSE, value |-> FALSE]

NoUser == <<>>

NoScore ==
    [done |-> FALSE, total_questions |-> 0, answered_count |-> 0,
     correct_count |-> 0, per_question |-> <<>>]

NoResults == [category_id |-> 0, questions |-> <<>>, answers |-> <<>>]

\* A percentage: the number num / den. Python computes it as a float; the
\* model keeps the exact fraction.
Fraction(num, den) == [num |-> num, den |-> den]

\* results is not a key of the dict calculate_score returns: it is the
\* argument of the call.
NoScoreData ==
    [done |-> FALSE, results |-> NoResults, correct |-> 0, total |-> 0,
     percentage |-> Fraction(0, 1)]

\* user_id, rows, tie and fate are not part of the tuple get_attempt_stats
\* returns: the argument of the call, the rows of that user in quiz_attempts
\* at the call, how the server breaks ties and how the three SELECTs ended.
NoStats ==
    [done |-> FALSE, raised |-> FALSE, user_id |-> 0, rows |-> <<>>,
     tie |-> "even", fate |-> <<>>, total_attempts |-> 0, best_percent |-> 0,
     last_percent |-> 0]

\* outcome, connected and sql are not part of what a call returns: how the
\* statement ended, whether there was a connection at the call and how many
\* statements the call sent.
NoDbResult ==
    [op |-> "none", raised |-> "none", value |-> FALSE, data |-> <<>>,
     outcome |-> "ok", connected |-> FALSE, sql |-> 0]

\* No DatabaseManager call made on its own, and no questions.
DbIdle ==
    /\ db_result = NoDbResult
    /\ question_rows = <<>>
    /\ next_question_id = 1

\* A navigation handler that ran, and the exception it let escape ("none"
\* when it returned).
Nav(handler, exc) == [handler |-> handler, raised |-> exc]

\* No navigation handler has run.
NavIdle == last_nav = Nav("none", "none")

\* The result screen and the statistics unused.
ResultsIdle ==
    /\ score_data = NoScoreData
    /\ attempt_stats = NoStats

\* The result screen and the statistics unused, the quiz page as
\* QuizWidget.__init__ leaves it, and no DatabaseManager call made on its
\* own.
ViewIdle ==
    /\ ResultsIdle
    /\ NavIdle
    /\ DbIdle
    /\ quiz_category_id = 0
    /\ quiz_questions = <<>>
    /\ current_index = 0
    /\ quiz_answers = <<>>
    /\ checked = -1
    /\ quiz_enabled = FALSE
    /\ prev_enabled = FALSE
    /\ emitted = 0
    /\ sessions = 0

CredIdle ==
    /\ password = <<>>
    /\ candidate = <<>>
    /\ stored = <<>>
    /\ hashes = <<>>
    /\ verified = NotVerified

AuthIdle ==
    /\ users = <<>>
    /\ next_user_id = 1
    /\ auth_result = [op |-> "none", raised |-> FALSE, ok |-> FALSE, id |-> 0]

ScoreIdle ==
    /\ sc_questions = <<>>
    /\ sc_answers = <<>>
    /\ scored = NoScore

AppIdle ==
    /\ conn = "none"
    /\ current_user = NoUser
    /\ page = "login"
    /\ dashboard_page = "none"
    /\ quiz_attempts = <<>>
    /\ quiz_attempt_answers = <<>>
    /\ next_attempt_id = 1
    /\ calls = <<>>
    /\ raised = "none"
    /\ results_page = NoResults
    /\ submissions = 0
    /\ last_signal = [results |-> NoResults, user |-> NoUser]

-----------------------------------------------------------------------------
(* SpecCred: _hash_password and _verify_password on drawn inputs *)

\* The longest tail of characters put after the tag to make a stored value.
MaxTail == 3

\* The number of times _hash_password is called on the password.
MaxHashCalls == 2

hunter2 == <<"h", "u", "n", "t", "e", "r", "2">>

wrong == <<"w", "r", "o", "n", "g">>

\* The passwords tried: the two of the legacy example, one that differs from
\* hunter2 in case only, short ones, one with a "$", the empty one.
Passwords ==
    { hunter2, wrong, <<"H", "u", "n", "t", "e", "r", "2">>,
      <<"a">>, <<"a", "$">>, <<>> }

\* The salts os.urandom(16) may return, as far as the model draws them.
Salts ==
    { [i \in 1..SaltLen |-> 0],
      [i \in 1..SaltLen |-> (17 * i) % 256],
      [i \in 1..SaltLen |-> 255] }

\* The characters of the tails: the separator, a hexadecimal digit, a letter
\* that is no hexadecimal digit, a space.
TailChars == {"$", "a", "g", " "}

RECURSIVE SeqsUpTo(_, _)
SeqsUpTo(S, n) ==
    IF n = 0 THEN {<<>>}
    ELSE LET shorter == SeqsUpTo(S, n - 1) IN
         shorter \cup {Append(t, c) : t \in shorter, c \in S}

\* Stored values that start with the tag, followed by any short tail.
TaggedSamples == {TagPrefix \o t : t \in SeqsUpTo(TailChars, MaxTail)}

\* The credential _hash_password(pw, salt) written another way that
\* bytes.fromhex reads as the same bytes: upper-case digits, and spaces
\* around the fields.
Respelled(pw, salt) ==
    TagPrefix \o Upper(Hex(salt)) \o <<" ", "$", " ">>
        \o Upper(Hex(Pbkdf2(EncodeUtf8(pw), salt)))

\* A credential with one field too many: a "$" and more after the key.
ExtraField(pw, salt) == _hash_password(pw, salt) \o <<"$", "a", "a">>

\* A credential whose salt has an odd number of digits.
OddSalt(pw, salt) ==
    TagPrefix \o Tail(Hex(salt)) \o <<"$">>
        \o Hex(Pbkdf2(EncodeUtf8(pw), salt))

\* Stored values that do not start with the tag: the passwords themselves,
\* the tag without its "$", the tag in upper case.
LegacySamples ==
    Passwords \cup {TagName, Upper(TagPrefix) \o <<"a", "$", "a">>}

StoredSamples ==
    TaggedSamples \cup LegacySamples
        \cup {Respelled(pw, salt) : pw \in {hunter2, <<>>}, salt \in Salts}
        \cup {ExtraField(pw, salt) : pw \in {hunter2}, salt \in Salts}
        \cup {OddSalt(pw, salt) : pw \in {hunter2}, salt \in Salts}

InitCred ==
    /\ password \in Passwords
    /\ candidate \in Passwords
    /\ stored \in StoredSamples
    /\ hashes = <<>>
    /\ verified = NotVerified
    /\ AuthIdle /\ ScoreIdle /\ AppIdle /\ ViewIdle

\* One call of _hash_password(password); os.urandom draws the salt. The
\* string returned is what is stored from then on.
HashStep ==
    /\ Len(hashes) < MaxHashCalls
    /\ \E salt \in Salts :
          /\ hashes' = Append(hashes,
                              [salt |-> salt,
                               out |-> _hash_password(password, salt)])
          /\ stored' = _hash_password(password, salt)
    /\ verified' = NotVerified
    /\ UNCHANGED <<password, candidate>>
    /\ UNCHANGED <<authVars, scoreVars, appVars, viewVars, navVars,
                   quizVars, dbVars>>

\* One call of _verify_password(candidate, st), st being the stored sample or
\* a string _hash_password returned.
VerifyStep ==
    /\ \E st \in {stored} \cup {hashes[i].out : i \in 1..Len(hashes)} :
          LET r == _verify_password(candidate, st) IN
          verified' = [done |-> TRUE, password |-> candidate, stored |-> st,
                       raised |-> r.raised, value |-> r.value]
    /\ UNCHANGED <<password, candidate, stored, hashes>>
    /\ UNCHANGED <<authVars, scoreVars, appVars, viewVars, navVars,
                   quizVars, dbVars>>

NextCred == HashStep \/ VerifyStep

SpecCred == InitCred /\ [][NextCred]_vars

-----------------------------------------------------------------------------
(* SpecAuth: create_user and authenticate_user on the users table *)

\* The number of ids the users sequence hands out.
MaxUsers == 2

\* How a statement sent to the server ends: it succeeds, the server rejects
\* it (the connection stays open), or the connection is lost with it (psycopg2
\* marks the connection closed).
Outcomes == {"ok", "error", "lost"}

\* DatabaseManager.is_connected.
is_connected == conn = "open"

\* The connection after a statement that ended as outcome.
ConnAfter(outcome) == IF outcome = "lost" THEN "closed" ELSE conn

\* A users row. written_by and password are not columns: they record which
\* rows this program inserted and the password create_user was given.
UserRow(id, username, password_hash, written_by, pw) ==
    [id |-> id, username |-> username, password_hash |-> password_hash,
     written_by |-> written_by, password |-> pw]

al == <<"a", "l">>

old == <<"o", "l", "d">>

\* The user names typed: a name, the same name with spaces around it, and a
\* blank one.
Usernames == {al, <<" ">> \o al \o <<" ">>, <<" ">>}

\* The salts drawn when an account is created.
AccountSalts == {[i \in 1..SaltLen |-> 0], [i \in 1..SaltLen |-> 255]}

\* The passwords typed when an account is created or a user logs in.
TypedPasswords == {hunter2, <<"a">>, <<>>}

\* The users table before the program runs: empty, or one account of an
\* earlier version whose password_hash column holds the password itself.
InitialUsers ==
    { <<>>, <<UserRow(0, old, hunter2, "legacy", <<>>)>> }

NoReturn == [op |-> "none", raised |-> FALSE, ok |-> FALSE, id |-> 0]

Returned(op, ok, id) == [op |-> op, raised |-> FALSE, ok |-> ok, id |-> id]

Raised(op) == [op |-> op, raised |-> TRUE, ok |-> FALSE, id |-> 0]

\* The rows of the users table with this user name.
RowsNamed(username) ==
    {i \in 1..Len(users) : users[i].username = username}

\* A plausible slip: the password itself is stored.
create_user_plaintext(username, pw, salt, outcome) ==
    LET name == Strip(username) IN
    /\ next_user_id <= MaxUsers
    /\ is_connected /\ name # <<>> /\ pw # <<>>
    /\ outcome = "ok" /\ RowsNamed(name) = {}
    /\ users' = Append(users,
                       UserRow(next_user_id, name, pw, "create_user", pw))
    /\ next_user_id' = next_user_id + 1
    /\ auth_result' = Returned("create_user", TRUE, next_user_id)
    /\ UNCHANGED conn

\* DatabaseManager.create_user; salt is the draw of os.urandom inside
\* _hash_password, outcome how the INSERT ends. An INSERT of a user name that
\* exists is rejected (the users table has unique user names: login.py tells
\* the user so). The sequence value of a rejected INSERT is not handed out
\* again.
create_user(username, pw, salt, outcome) ==
    LET name == Strip(username) IN
    /\ next_user_id <= MaxUsers
    /\ IF ~is_connected
       THEN /\ auth_result' = Raised("create_user")
            /\ UNCHANGED <<users, next_user_id, conn>>
       ELSE IF name = <<>> \/ pw = <<>>
       THEN /\ auth_result' = Returned("create_user", FALSE, 0)
            /\ UNCHANGED <<users, next_user_id, conn>>
       ELSE IF outcome = "ok" /\ RowsNamed(name) = {}
       THEN /\ users' = Append(users,
                               UserRow(next_user_id, name,
                                       _hash_password(pw, salt),
                                       "create_user", pw))
            /\ next_user_id' = next_user_id + 1
            /\ auth_result' = Returned("create_user", TRUE, next_user_id)
            /\ UNCHANGED conn
       ELSE /\ auth_result' = Returned("create_user", FALSE, 0)
            /\ next_user_id' =
                 IF outcome = "lost" THEN next_user_id ELSE next_user_id + 1
            /\ conn' = ConnAfter(outcome)
            /\ UNCHANGED users

\* A plausible slip: a legacy credential that verified is replaced by its
\* hash in place.
authenticate_user_rehash(username, pw, outcome) ==
    /\ is_connected /\ outcome = "ok"
    /\ \E i \in RowsNamed(username) :
          /\ _verify_password(pw, users[i].password_hash).value
          /\ users' = [users EXCEPT ![i].password_hash =
                          IF StartsWith(@, TagPrefix) THEN @
                          ELSE _hash_password(pw, [k \in 1..SaltLen |-> 0])]
          /\ auth_result' = Returned("authenticate_user", TRUE, users[i].id)
    /\ UNCHANGED <<next_user_id, conn>>

\* DatabaseManager.authenticate_user; outcome is how the SELECT ends.
authenticate_user(username, pw, outcome) ==
    /\ IF ~is_connected
       THEN /\ auth_result' = Raised("authenticate_user")
            /\ UNCHANGED conn
       ELSE IF outcome # "ok" \/ RowsNamed(username) = {}
       THEN /\ auth_result' = Returned("authenticate_user", FALSE, 0)
            /\ conn' = IF outcome = "ok" THEN conn ELSE ConnAfter(outcome)
       ELSE LET row == users[CHOOSE i \in RowsNamed(username) : TRUE] IN
            /\ auth_result' =
                 IF _verify_password(pw, row.password_hash).value
                 THEN Returned("authenticate_user", TRUE, row.id)
                 ELSE Returned("authenticate_user", FALSE, 0)
            /\ UNCHANGED conn
    /\ UNCHANGED <<users, next_user_id>>

InitAuth ==
    /\ users \in InitialUsers
    /\ next_user_id = 1
    /\ auth_result = NoReturn
    /\ conn = "open"
    /\ current_user = NoUser
    /\ page = "login"
    /\ dashboard_page = "none"
    /\ quiz_attempts = <<>>
    /\ quiz_attempt_answers = <<>>
    /\ next_attempt_id = 1
    /\ calls = <<>>
    /\ raised = "none"
    /\ results_page = NoResults
    /\ submissions = 0
    /\ last_signal = [results |-> NoResults, user |-> NoUser]
    /\ CredIdle /\ ScoreIdle /\ ViewIdle

CreateUserStep ==
    /\ \E username \in Usernames, pw \in TypedPasswords,
          salt \in AccountSalts, outcome \in Outcomes :
          create_user(username, pw, salt, outcome)
    /\ UNCHANGED <<credVars, scoreVars, viewVars, navVars, quizVars, dbVars>>
    /\ UNCHANGED <<current_user, page, dashboard_page, quiz_attempts,
                   quiz_attempt_answers, next_attempt_id, calls, raised,
                   results_page, submissions, last_signal>>

AuthenticateStep ==
    /\ \E username \in Usernames \cup {old}, pw \in TypedPasswords,
          outcome \in Outcomes :
          authenticate_user(username, pw, outcome)
    /\ UNCHANGED <<credVars, scoreVars, viewVars, navVars, quizVars, dbVars>>
    /\ UNCHANGED <<current_user, page, dashboard_page, quiz_attempts,
                   quiz_attempt_answers, next_attempt_id, calls, raised,
                   results_page, submissions, last_signal>>

NextAuth == CreateUserStep \/ AuthenticateStep

SpecAuth == InitAuth /\ [][NextAuth]_vars

-----------------------------------------------------------------------------
(* The scoring loop of QuizApp.on_quiz_completed (main.py) *)

\* Optional[str]: None, or a string.
None == [some |-> FALSE, letter |-> <<>>]

Some(letter) == [some |-> TRUE, letter |-> letter]

\* A question row as the handler reads it: q[0] and q[2].
Question(id, correct_answer) == [id |-> id, correct_answer |-> correct_answer]

\* A plausible slip: the selection is compared as typed, without
\* strip().upper().
ScoreQuestionRaw(q, answers) ==
    LET correct_letter == Upper(Strip(q.correct_answer))
        selected_letter ==
            IF q.id \in DOMAIN answers /\ answers[q.id] # <<>>
            THEN Some(answers[q.id])
            ELSE None
    IN  [question_id |-> q.id,
         selected_letter |-> selected_letter,
         correct_letter |-> correct_letter,
         is_correct |-> selected_letter.some
                          /\ selected_letter.letter = correct_letter]

\* A plausible slip: every question with a selection counts as correct.
ScoreQuestionAnyAnswer(q, answers) ==
    LET correct_letter == Upper(Strip(q.correct_answer))
        selected_letter ==
            IF q.id \in DOMAIN answers /\ answers[q.id] # <<>>
            THEN Some(Upper(Strip(answers[q.id])))
            ELSE None
    IN  [question_id |-> q.id,
         selected_letter |-> selected_letter,
         correct_letter |-> correct_letter,
         is_correct |-> selected_letter.some]

\* One turn of the loop over the questions: the per_question entry.
\* answers.get(q_id) is None for a missing key, and an empty string is as
\* false as None in `if selected`.
ScoreQuestion(q, answers) ==
    LET correct_letter == Upper(Strip(q.correct_answer))
        selected_letter ==
            IF q.id \in DOMAIN answers /\ answers[q.id] # <<>>
            THEN Some(Upper(Strip(answers[q.id])))
            ELSE None
    IN  [question_id |-> q.id,
         selected_letter |-> selected_letter,
         correct_letter |-> correct_letter,
         is_correct |-> selected_letter.some
                          /\ selected_letter.letter = correct_letter]

\* What on_quiz_completed computes before it persists anything.
Score(questions, answers) ==
    LET per_question ==
            [i \in 1..Len(questions) |-> ScoreQuestion(questions[i], answers)]
    IN  [done |-> TRUE,
         total_questions |-> Len(questions),
         answered_count |-> Cardinality(DOMAIN answers),
         correct_count |->
             Cardinality({i \in 1..Len(questions) : per_question[i].is_correct}),
         per_question |-> per_question]

-----------------------------------------------------------------------------
(* SpecScore: the scoring loop on drawn inputs *)

\* The longest question list scored.
MaxQuestions == 2

\* The questions of the bank: the correct answer as the database row holds
\* it, which may be in lower case or have spaces around it.
QuestionBank ==
    { Question(1, <<"A">>), Question(2, <<" ", "b">>), Question(3, <<"C">>) }

\* Question ids of no question of the bank.
ForeignIds == {9}

RECURSIVE ListsUpTo(_, _)
ListsUpTo(S, n) ==
    IF n = 0 THEN {<<>>}
    ELSE LET shorter == ListsUpTo(S, n - 1) IN
         shorter \cup {Append(l, q) : l \in shorter, q \in S}

\* The question lists: rows of distinct ids, as a SELECT returns them.
QuestionLists ==
    {l \in ListsUpTo(QuestionBank, MaxQuestions) :
        \A i, j \in 1..Len(l) : i # j => l[i].id # l[j].id}

\* The selections: a letter, letters in lower case with spaces around them,
\* a letter outside A to D, the empty string.
Selections == {<<"A">>, <<"b", " ">>, <<" ", "c">>, <<"X">>, <<>>}

\* The answers mappings: any selections for any of the bank's ids and for
\* a foreign id.
AnswerMaps ==
    UNION {[keys -> Selections] :
             keys \in SUBSET ({q.id : q \in QuestionBank} \cup ForeignIds)}

InitScore ==
    /\ sc_questions \in QuestionLists
    /\ sc_answers \in AnswerMaps
    /\ scored = NoScore
    /\ CredIdle /\ AuthIdle /\ AppIdle /\ ViewIdle

ScoreStep ==
    /\ ~scored.done
    /\ scored' = Score(sc_questions, sc_answers)
    /\ UNCHANGED <<sc_questions, sc_answers>>
    /\ UNCHANGED <<credVars, authVars, appVars, viewVars, navVars,
                   quizVars, dbVars>>

NextScore == ScoreStep

SpecScore == InitScore /\ [][NextScore]_vars

-----------------------------------------------------------------------------
(* Spec: the main window's handlers and the attempt history (main.py, db.py) *)

\* The number of quiz_completed signals handled.
MaxSubmissions == 2

\* A results dict as QuizWidget.submit_quiz builds it, as far as
\* on_quiz_completed reads it.
Results(category_id, questions, answers) ==
    [category_id |-> category_id, questions |-> questions, answers |-> answers]

\* The results dicts the quiz_completed signal carries: two questions, one
\* answered right and one wrong; one question answered right in lower case
\* together with a selection for a question that is not in the list; a
\* category id of 0; an empty question list.
SubmittedResults ==
    { Results(1, <<Question(1, <<"A">>), Question(2, <<" ", "b">>)>>,
              (1 :> <<"A">>) @@ (2 :> <<"X">>)),
      Results(1, <<Question(2, <<" ", "b">>)>>,
              (2 :> <<"b", " ">>) @@ (9 :> <<"A">>)),
      Results(0, <<Question(1, <<"A">>)>>, (1 :> <<"A">>)),
      Results(1, <<>>, <<>>) }

\* The accounts that log in: the one of the earlier version, whose id is 0,
\* and one this program created.
Accounts == { <<0, old>>, <<1, al>> }

\* The fates of the statements of one handler run on n questions: of the
\* INSERT of the attempt (at 0) and of the INSERT of the k-th answer row (at
\* k).
Fates(n) == [0..n -> Outcomes]

\* One database call of on_quiz_completed: its arguments and what it
\* returned ("id", "None", "True", "False", or "raised").
Call(op, attempt_id, question_id, returned, id) ==
    [op |-> op, attempt_id |-> attempt_id, question_id |-> question_id,
     returned |-> returned, id |-> id]

\* A plausible slip: the two counts change places in the INSERT.
AttemptRowSwapped(id, user_id, category_id, sc, submission, seq) ==
    [id |-> id, user_id |-> user_id, category_id |-> category_id,
     total_questions |-> sc.total_questions,
     correct_count |-> sc.answered_count,
     answered_count |-> sc.correct_count,
     submission |-> submission, seq |-> seq]

\* A quiz_attempts row. submission and seq are not columns: the signal the
\* row was written for, and its place in the order of all commits.
AttemptRow(id, user_id, category_id, sc, submission, seq) ==
    [id |-> id, user_id |-> user_id, category_id |-> category_id,
     total_questions |-> sc.total_questions,
     correct_count |-> sc.correct_count,
     answered_count |-> sc.answered_count,
     submission |-> submission, seq |-> seq]

\* A quiz_attempt_answers row, with the same two marks.
AnswerRow(attempt_id, e, submission, seq) ==
    [attempt_id |-> attempt_id, question_id |-> e.question_id,
     selected_letter |-> e.selected_letter,
     correct_letter |-> e.correct_letter, is_correct |-> e.is_correct,
     submission |-> submission, seq |-> seq]

\* DatabaseManager.add_attempt_answer through execute, on the database state
\* st = [conn, answers, calls, raised] of the running handler: it raises
\* RuntimeError without a connection, commits the row and returns True, or
\* rolls back and returns False.
add_attempt_answer(st, attempt_id, e, outcome) ==
    IF st.conn # "open"
    THEN [st EXCEPT
            !.raised = "RuntimeError",
            !.calls = Append(@, Call("add_attempt_answer", attempt_id,
                                     e.question_id, "raised", 0))]
    ELSE [conn |-> IF outcome = "lost" THEN "closed" ELSE st.conn,
          answers |->
              IF outcome = "ok"
              THEN Append(st.answers,
                          AnswerRow(attempt_id, e, submissions + 1,
                                    Len(quiz_attempts) + 1
                                      + Len(st.answers) + 1))
              ELSE st.answers,
          calls |-> Append(st.calls,
                           Call("add_attempt_answer", attempt_id,
                                e.question_id,
                                IF outcome = "ok" THEN "True" ELSE "False", 0)),
          raised |-> "none"]

\* A plausible slip: the answers are written under the id before the one
\* create_quiz_attempt returned.
RECURSIVE AnswerLoopStaleId(_, _, _, _, _)
AnswerLoopStaleId(attempt_id, per_question, fate, k, st) ==
    IF k > Len(per_question) \/ st.raised # "none" THEN st
    ELSE AnswerLoopStaleId(attempt_id, per_question, fate, k + 1,
                           add_attempt_answer(st, attempt_id - 1,
                                              per_question[k], fate[k]))

\* The loop over per_question of on_quiz_completed, from its k-th turn: one
\* add_attempt_answer call per entry, in order; an exception ends it.
RECURSIVE AnswerLoop(_, _, _, _, _)
AnswerLoop(attempt_id, per_question, fate, k, st) ==
    IF k > Len(per_question) \/ st.raised # "none" THEN st
    ELSE AnswerLoop(attempt_id, per_question, fate, k + 1,
                    add_attempt_answer(st, attempt_id, per_question[k],
                                       fate[k]))

\* A plausible slip: an attempt of no questions is persisted too.
ShouldPersistAnyTotal(category_id, total_questions) ==
    /\ current_user # NoUser
    /\ category_id > 0

\* The guard of the persistence step of on_quiz_completed: user_id is
\* current_user[0] if a user is logged in and None otherwise.
ShouldPersist(category_id, total_questions) ==
    /\ current_user # NoUser
    /\ category_id > 0
    /\ total_questions > 0

\* A plausible slip: the id create_quiz_attempt returned is not tested, so
\* the answers are written also when it returned None.
on_quiz_completed_unchecked(results, fate) ==
    LET sc == Score(results.questions, results.answers)
        create(returned, id) == Call("create_quiz_attempt", 0, 0, returned, id)
    IN
    /\ submissions < MaxSubmissions
    /\ submissions' = submissions + 1
    /\ last_signal' = [results |-> results, user |-> current_user]
    /\ IF ~ShouldPersist(results.category_id, sc.total_questions)
       THEN /\ calls' = <<>>
            /\ raised' = "none"
            /\ page' = "results"
            /\ results_page' = results
            /\ UNCHANGED <<conn, quiz_attempts, quiz_attempt_answers,
                           next_attempt_id>>
       ELSE IF ~is_connected
       THEN /\ calls' = <<create("raised", 0)>>
            /\ raised' = "RuntimeError"
            /\ UNCHANGED <<conn, quiz_attempts, quiz_attempt_answers,
                           next_attempt_id, page, results_page>>
       ELSE LET attempt_id == next_attempt_id
                first == IF fate[0] = "ok" THEN create("id", attempt_id)
                         ELSE create("None", 0)
                end == AnswerLoop(attempt_id, sc.per_question, fate, 1,
                                  [conn |-> ConnAfter(fate[0]),
                                   answers |-> quiz_attempt_answers,
                                   calls |-> <<first>>,
                                   raised |-> "none"])
            IN  /\ quiz_attempts' =
                     IF fate[0] # "ok" THEN quiz_attempts
                     ELSE Append(quiz_attempts,
                                 AttemptRow(attempt_id, current_user[1],
                                            results.category_id, sc,
                                            submissions + 1,
                                            Len(quiz_attempts)
                                              + Len(quiz_attempt_answers) + 1))
                /\ next_attempt_id' =
                     IF fate[0] = "lost" THEN next_attempt_id
                     ELSE next_attempt_id + 1
                /\ quiz_attempt_answers' = end.answers
                /\ conn' = end.conn
                /\ calls' = end.calls
                /\ raised' = end.raised
                /\ IF end.raised = "none"
                   THEN page' = "results" /\ results_page' = results
                   ELSE UNCHANGED <<page, results_page>>
    /\ UNCHANGED <<current_user, dashboard_page>>

\* QuizApp.on_quiz_completed, with DatabaseManager.create_quiz_attempt. A
\* RuntimeError of _ensure_connection leaves the handler before the results
\* page is loaded. The sequence value of a rejected INSERT is not handed out
\* again.
on_quiz_completed(results, fate) ==
    LET sc == Score(results.questions, results.answers)
        create(returned, id) == Call("create_quiz_attempt", 0, 0, returned, id)
    IN
    /\ submissions < MaxSubmissions
    /\ submissions' = submissions + 1
    /\ last_signal' = [results |-> results, user |-> current_user]
    /\ IF ~ShouldPersist(results.category_id, sc.total_questions)
       THEN /\ calls' = <<>>
            /\ raised' = "none"
            /\ page' = "results"
            /\ results_page' = results
            /\ UNCHANGED <<conn, quiz_attempts, quiz_attempt_answers,
                           next_attempt_id>>
       ELSE IF ~is_connected
       THEN /\ calls' = <<create("raised", 0)>>
            /\ raised' = "RuntimeError"
            /\ UNCHANGED <<conn, quiz_attempts, quiz_attempt_answers,
                           next_attempt_id, page, results_page>>
       ELSE IF fate[0] # "ok"
       THEN /\ calls' = <<create("None", 0)>>
            /\ raised' = "none"
            /\ conn' = ConnAfter(fate[0])
            /\ next_attempt_id' =
                 IF fate[0] = "lost" THEN next_attempt_id
                 ELSE next_attempt_id + 1
            /\ page' = "results"
            /\ results_page' = results
            /\ UNCHANGED <<quiz_attempts, quiz_attempt_answers>>
       ELSE LET attempt_id == next_attempt_id
                end == AnswerLoop(attempt_id, sc.per_question, fate, 1,
                                  [conn |-> conn,
                                   answers |-> quiz_attempt_answers,
                                   calls |-> <<create("id", attempt_id)>>,
                                   raised |-> "none"])
            IN  /\ quiz_attempts' =
                     Append(quiz_attempts,
                            AttemptRow(attempt_id, current_user[1],
                                       results.category_id, sc,
                                       submissions + 1,
                                       Len(quiz_attempts)
                                         + Len(quiz_attempt_answers) + 1))
                /\ next_attempt_id' = next_attempt_id + 1
                /\ quiz_attempt_answers' = end.answers
                /\ conn' = end.conn
                /\ calls' = end.calls
                /\ raised' = end.raised
                /\ IF end.raised = "none"
                   THEN page' = "results" /\ results_page' = results
                   ELSE UNCHANGED <<page, results_page>>
    /\ UNCHANGED <<current_user, dashboard_page>>

\* How the SELECTs of DashboardWidget.refresh end: all are answered; the
\* connection is lost with one of the three of get_attempt_stats, so that
\* the next one finds no connection; or it is lost with one of the last two,
\* after which no call is made that raises.
RefreshFates == {"ok", "lost_early", "lost_late"}

\* DashboardWidget.refresh of the dashboard of user_id: the connection it
\* leaves and the exception it lets through. It does nothing for an id
\* that is not positive.
refresh(user_id, fate) ==
    IF user_id <= 0 THEN [conn |-> conn, raised |-> "none"]
    ELSE IF ~is_connected THEN [conn |-> conn, raised |-> "RuntimeError"]
    ELSE IF fate = "ok" THEN [conn |-> conn, raised |-> "none"]
    ELSE [conn |-> "closed",
          raised |-> IF fate = "lost_early" THEN "RuntimeError" ELSE "none"]

\* QuizApp.on_login_success with _create_or_replace_dashboard; fate is how
\* the refresh at the end of DashboardWidget.__init__ goes. When it raises,
\* the old dashboard is already out of the stack, which shows the page
\* before it (the admin page) if the dashboard was the current one, and
\* dashboard_page still refers to the old widget.
on_login_success(username, user_id, fate) ==
    LET built == refresh(user_id, fate) IN
    /\ current_user' = <<user_id, username>>
    /\ last_nav' = Nav("on_login_success", built.raised)
    /\ conn' = built.conn
    /\ IF built.raised = "none"
       THEN /\ dashboard_page' = "stacked"
            /\ page' = "dashboard"
       ELSE /\ dashboard_page' =
                 IF dashboard_page = "none" THEN "none" ELSE "removed"
            /\ page' = IF page = "dashboard" THEN "admin" ELSE page
    /\ UNCHANGED <<quiz_attempts, quiz_attempt_answers, next_attempt_id,
                   calls, raised, results_page, submissions, last_signal>>

\* QuizApp.logout.
logout ==
    /\ current_user' = NoUser
    /\ page' = "login"
    /\ last_nav' = Nav("logout", "none")
    /\ UNCHANGED <<conn, dashboard_page, quiz_attempts, quiz_attempt_answers,
                   next_attempt_id, calls, raised, results_page, submissions,
                   last_signal>>

\* The window as QuizApp.__init__ leaves it, its DatabaseManager holding an
\* open connection: nobody is logged in and the login page is shown.
Init ==
    /\ conn = "open"
    /\ current_user = NoUser
    /\ page = "login"
    /\ dashboard_page = "none"
    /\ quiz_attempts = <<>>
    /\ quiz_attempt_answers = <<>>
    /\ next_attempt_id = 1
    /\ calls = <<>>
    /\ raised = "none"
    /\ results_page = NoResults
    /\ submissions = 0
    /\ last_signal = [results |-> NoResults, user |-> NoUser]
    /\ CredIdle /\ AuthIdle /\ ScoreIdle /\ ViewIdle

LoginStep ==
    /\ \E account \in Accounts, fate \in RefreshFates :
          on_login_success(account[2], account[1], fate)
    /\ UNCHANGED <<credVars, authVars, scoreVars, viewVars, quizVars, dbVars>>

LogoutStep ==
    /\ current_user # NoUser
    /\ logout
    /\ UNCHANGED <<credVars, authVars, scoreVars, viewVars, quizVars, dbVars>>

QuizCompletedStep ==
    /\ \E results \in SubmittedResults :
          \E fate \in Fates(Len(results.questions)) :
              on_quiz_completed(results, fate)
    /\ UNCHANGED <<credVars, authVars, scoreVars, viewVars, navVars,
                   quizVars, dbVars>>

Next == LoginStep \/ LogoutStep \/ QuizCompletedStep

Spec == Init /\ [][Next]_vars

-----------------------------------------------------------------------------
(* SpecResults: the score on the result screen (ui_results.py) and the     *)
(* statistics on the dashboard (db.py) of the attempts a user submitted    *)

\* ResultsWidget.calculate_score, as far as the score header reads it: the
\* selection is compared with the correct answer as the row holds it, and
\* the percentage is the quotient, not rounded.
calculate_score(results) ==
    LET questions == results.questions
        answers == results.answers
        is_correct(q) ==
            /\ q.id \in DOMAIN answers
            /\ answers[q.id] = q.correct_answer
        correct_count ==
            Cardinality({i \in 1..Len(questions) : is_correct(questions[i])})
        total == Len(questions)
    IN  [done |-> TRUE,
         results |-> results,
         correct |-> correct_count,
         total |-> total,
         percentage |-> IF total > 0
                        THEN Fraction(correct_count * 100, total)
                        ELSE Fraction(0, 1)]

\* How ROUND breaks a tie on a double precision value: PostgreSQL leaves it
\* to the platform, to the nearest even integer on most.
TieRules == {"even", "away"}

\* ROUND(num / den) of PostgreSQL on a double precision value that is not
\* negative.
SqlRound(num, den, tie) ==
    LET floor == num \div den
        twice == 2 * (num % den)
    IN  IF twice < den THEN floor
        ELSE IF twice > den THEN floor + 1
        ELSE IF tie = "even" /\ floor % 2 = 0 THEN floor
        ELSE floor + 1

\* ROUND((correct_count::float / NULLIF(total_questions, 0)) * 100) of one
\* quiz_attempts row; NULL is the empty set, a number n is {n}.
RowPercent(row, tie) ==
    IF row.total_questions = 0 THEN {}
    ELSE {SqlRound(row.correct_count * 100, row.total_questions, tie)}

\* The largest number of a set that is not empty.
Max(S) == CHOOSE m \in S : \A n \in S : n <= m

\* DatabaseManager.get_attempt_stats: three fetch_one calls, fate[k] being
\* how the k-th SELECT ends. fetch_one raises RuntimeError without a
\* connection and returns None when the SELECT fails; the rows of a user are
\* in the order of created_at.
get_attempt_stats(user_id, fate, tie) ==
    LET mine == SelectSeq(quiz_attempts, LAMBDA r : r.user_id = user_id)
        percents == UNION {RowPercent(mine[i], tie) : i \in 1..Len(mine)}
        last == IF mine = <<>> THEN {} ELSE RowPercent(mine[Len(mine)], tie)
        open_before(k) == is_connected /\ \A j \in 1..(k - 1) : fate[j] # "lost"
        stats(exc, total, best, last_percent) ==
            [done |-> TRUE, raised |-> exc, user_id |-> user_id,
             rows |-> mine, tie |-> tie, fate |-> fate, total_attempts |-> total, best_percent |-> best,
             last_percent |-> last_percent]
    IN
    /\ attempt_stats' =
         IF \E k \in 1..3 : ~open_before(k)
         THEN stats(TRUE, 0, 0, 0)
         ELSE stats(FALSE,
                    IF fate[1] = "ok" THEN Len(mine) ELSE 0,
                    IF fate[2] = "ok" /\ percents # {} THEN Max(percents)
                    ELSE 0,
                    IF fate[3] = "ok" /\ last # {} THEN Max(last) ELSE 0)
    /\ conn' = IF is_connected /\ \E k \in 1..3 : fate[k] = "lost"
               THEN "closed" ELSE conn

\* A quiz of total questions of which the first correct ones are answered
\* right and the others not at all.
QuizOf(correct, total) ==
    Results(1, [i \in 1..total |-> Question(i, <<"A">>)],
            [i \in 1..correct |-> <<"A">>])

\* The quizzes submitted: none of no questions, 1 of 3 and 1 of 8.
ScoredQuizzes == {QuizOf(0, 0), QuizOf(1, 3), QuizOf(1, 8)}

\* The fates of the statements of one handler run on n questions: all
\* succeed, or the INSERT of the attempt is rejected.
QuietFates(n) ==
    {[k \in 0..n |-> "ok"], [k \in 0..n |-> IF k = 0 THEN "error" ELSE "ok"]}

\* The fates of the three SELECTs of get_attempt_stats.
StatsFates ==
    {<<"ok", "ok", "ok">>, <<"error", "ok", "ok">>, <<"ok", "error", "error">>,
     <<"ok", "lost", "ok">>}

\* on_quiz_completed, with the score the handler computes and the result
\* screen it loads at its end: load_results displays the results, which
\* computes their score.
SubmitScoredStep ==
    /\ \E results \in ScoredQuizzes :
          \E fate \in QuietFates(Len(results.questions)) :
              /\ on_quiz_completed(results, fate)
              \* the handler's total_questions, answered_count,
              \* correct_count and per_question
              /\ scored' = Score(results.questions, results.answers)
    /\ score_data' = IF raised' = "none"
                      THEN calculate_score(results_page')
                      ELSE score_data
    /\ UNCHANGED <<attempt_stats, navVars>>
    /\ UNCHANGED <<sc_questions, sc_answers>>
    /\ UNCHANGED <<credVars, authVars, quizVars, dbVars>>

\* DashboardWidget.refresh asks for the statistics of its user.
AttemptStatsStep ==
    /\ current_user # NoUser
    /\ \E fate \in StatsFates, tie \in TieRules :
          get_attempt_stats(current_user[1], fate, tie)
    /\ UNCHANGED <<score_data, navVars>>
    /\ UNCHANGED <<credVars, authVars, scoreVars, quizVars, dbVars>>
    /\ UNCHANGED <<current_user, page, dashboard_page, quiz_attempts,
                   quiz_attempt_answers, next_attempt_id, calls, raised,
                   results_page, submissions, last_signal>>

NextResults == LoginStep \/ SubmitScoredStep \/ AttemptStatsStep

SpecResults == Init /\ [][NextResults]_vars

-----------------------------------------------------------------------------
(* SpecQuiz: the quiz page (ui/quiz.py) from load_quiz to the quiz_completed *)
(* signal, with the handlers of the main window it reaches                  *)

\* The number of load_quiz calls.
MaxSessions == 2

LETTERS == << <<"A">>, <<"B">>, <<"C">>, <<"D">> >>

\* The questions table: two questions in category 1, none in category 2.
QuizTable(category_id) ==
    IF category_id = 1
    THEN {Question(1, <<"A">>), Question(2, <<" ", "b">>)}
    ELSE {}

QuizCategories == {1, 2}

\* The limits load_quiz is called with: one the categories page hands over,
\* and the 10 of on_retake_quiz.
QuizLimits == {1, 10}

\* What SELECT ... ORDER BY RANDOM() LIMIT limit may return: up to limit rows
\* of the category in any order.
RandomRows(category_id, limit) ==
    LET table == QuizTable(category_id)
        n == IF Cardinality(table) < limit THEN Cardinality(table) ELSE limit
    IN  {l \in ListsUpTo(table, n) :
            /\ Len(l) = n
            /\ \A i, j \in 1..Len(l) : i # j => l[i].id # l[j].id}

\* How db.connect() ends when it has to open a connection: psycopg2 rejects
\* the keyword `name` with ProgrammingError (with OperationalError before
\* version 2.7), and load_config raises ValueError when a variable is
\* missing. connect() catches the last two and returns False.
Openings == {"ProgrammingError", "OperationalError", "ValueError"}

\* The radio button display_question leaves checked on the question at
\* index, given the answers: the one of the saved letter, or none.
CheckedFor(questions, index, answers) ==
    LET q_id == questions[index + 1].id IN
    IF q_id \in DOMAIN answers
         /\ \E i \in 1..Len(LETTERS) : LETTERS[i] = answers[q_id]
    THEN (CHOOSE i \in 1..Len(LETTERS) : LETTERS[i] = answers[q_id]) - 1
    ELSE -1

\* A plausible slip: the answer is saved under the index of the question,
\* not under its id.
SavedAnswersByIndex ==
    IF quiz_questions = <<>> \/ checked < 0 THEN quiz_answers
    ELSE [k \in DOMAIN quiz_answers \cup {current_index} |->
             IF k = current_index THEN LETTERS[checked + 1]
             ELSE quiz_answers[k]]

\* QuizWidget._save_current_answer: the answers with the letter of the radio
\* button checked, if any, saved for the current question.
SavedAnswers ==
    IF quiz_questions = <<>> \/ checked < 0 THEN quiz_answers
    ELSE LET q_id == quiz_questions[current_index + 1].id IN
         [k \in DOMAIN quiz_answers \cup {q_id} |->
             IF k = q_id THEN LETTERS[checked + 1] ELSE quiz_answers[k]]

\* CategoryWidget.load_categories on the connection c: the connection it
\* leaves. Without a connection it calls connect(), which ends as opening
\* says; with one it sends the SELECT of get_categories, which ends as
\* outcome says. It catches every exception.
load_categories(c, opening, outcome) ==
    IF c = "open" THEN (IF outcome = "lost" THEN "closed" ELSE c)
    ELSE IF opening = "ProgrammingError" THEN c
    ELSE "none"

\* QuizWidget.load_quiz called by on_category_selected or on_retake_quiz,
\* which then shows the quiz page. rows and outcome are what the SELECT of
\* the questions returns and how it ends, opening how connect() ends,
\* cat_outcome how the SELECT of load_categories ends when back_clicked
\* brings show_categories in: show_categories shows the categories page
\* and returns, load_quiz returns, and the caller shows the quiz page.
load_quiz(category_id, rows, outcome, opening, cat_outcome) ==
    /\ sessions < MaxSessions
    /\ sessions' = sessions + 1
    /\ emitted' = 0
    /\ quiz_category_id' = category_id
    /\ quiz_answers' = <<>>
    /\ current_index' = 0
    /\ prev_enabled' = FALSE
    /\ IF ~is_connected /\ opening = "ProgrammingError"
       THEN \* connect() lets the exception through
            /\ raised' = "ProgrammingError"
            /\ quiz_questions' = <<>>
            /\ quiz_enabled' = FALSE
            /\ UNCHANGED <<conn, page, checked, last_nav>>
       ELSE IF ~is_connected
       THEN \* connect() returned False: back_clicked, then the quiz page
            /\ raised' = "none"
            /\ quiz_questions' = <<>>
            /\ quiz_enabled' = FALSE
            /\ conn' = load_categories("none", opening, cat_outcome)
            /\ last_nav' = Nav("show_categories", "none")
            /\ page' = "quiz"
            /\ UNCHANGED checked
       ELSE IF outcome = "ok" /\ rows # <<>>
       THEN /\ raised' = "none"
            /\ quiz_questions' = rows
            /\ quiz_enabled' = TRUE
            /\ checked' = -1
            /\ page' = "quiz"
            /\ UNCHANGED <<conn, last_nav>>
       ELSE \* no questions: back_clicked, then the quiz page
            /\ raised' = "none"
            /\ quiz_questions' = <<>>
            /\ quiz_enabled' = FALSE
            /\ conn' = load_categories(ConnAfter(outcome), opening,
                                       cat_outcome)
            /\ last_nav' = Nav("show_categories", "none")
            /\ page' = "quiz"
            /\ UNCHANGED checked
    /\ UNCHANGED <<current_user, dashboard_page, quiz_attempts,
                   quiz_attempt_answers, next_attempt_id, calls,
                   results_page, submissions, last_signal>>

\* A plausible slip: submit_quiz leaves the buttons enabled.
submit_quiz_stays_enabled(answers, fate) ==
    /\ emitted' = emitted + 1
    /\ quiz_answers' = answers
    /\ on_quiz_completed(Results(quiz_category_id, quiz_questions, answers),
                         fate)
    /\ UNCHANGED <<quiz_category_id, quiz_questions, current_index, checked,
                   quiz_enabled, prev_enabled, sessions>>

\* QuizWidget.submit_quiz on a quiz with questions, answers being the
\* answers saved: the buttons are disabled and quiz_completed is emitted,
\* which runs on_quiz_completed.
submit_quiz(answers, fate) ==
    /\ quiz_enabled' = FALSE
    /\ prev_enabled' = FALSE
    /\ emitted' = emitted + 1
    /\ quiz_answers' = answers
    /\ on_quiz_completed(Results(quiz_category_id, quiz_questions, answers),
                         fate)
    /\ UNCHANGED <<quiz_category_id, quiz_questions, current_index, checked,
                   sessions>>

\* QuizWidget.next_question; reply is the answer to "Submit anyway?".
next_question(reply, fate) ==
    LET answers == SavedAnswers
        is_last == current_index = Len(quiz_questions) - 1
        unanswered == Len(quiz_questions) - Cardinality(DOMAIN answers)
    IN
    IF quiz_questions = <<>>
    THEN UNCHANGED <<appVars, quizVars>>
    ELSE IF is_last /\ unanswered > 0 /\ reply = "No"
    THEN /\ quiz_answers' = answers
         /\ UNCHANGED <<quiz_category_id, quiz_questions, current_index,
                        checked, quiz_enabled, prev_enabled, emitted,
                        sessions>>
         /\ UNCHANGED appVars
    ELSE IF is_last
    THEN submit_quiz(answers, fate)
    ELSE /\ quiz_answers' = answers
         /\ current_index' = current_index + 1
         /\ checked' = CheckedFor(quiz_questions, current_index + 1, answers)
         /\ prev_enabled' = (current_index + 1 > 0)
         /\ UNCHANGED <<quiz_category_id, quiz_questions, quiz_enabled,
                        emitted, sessions>>
         /\ UNCHANGED appVars

\* A plausible slip: previous_question does not look at the index.
previous_question_unguarded ==
    IF quiz_questions = <<>>
    THEN UNCHANGED <<appVars, quizVars>>
    ELSE /\ quiz_answers' = SavedAnswers
         /\ current_index' = current_index - 1
         /\ checked' = -1
         /\ prev_enabled' = (current_index - 1 > 0)
         /\ UNCHANGED <<quiz_category_id, quiz_questions, quiz_enabled,
                        emitted, sessions>>
         /\ UNCHANGED appVars

\* QuizWidget.previous_question.
previous_question ==
    IF quiz_questions = <<>> \/ current_index <= 0
    THEN UNCHANGED <<appVars, quizVars>>
    ELSE /\ quiz_answers' = SavedAnswers
         /\ current_index' = current_index - 1
         /\ checked' = CheckedFor(quiz_questions, current_index - 1,
                                  SavedAnswers)
         /\ prev_enabled' = (current_index - 1 > 0)
         /\ UNCHANGED <<quiz_category_id, quiz_questions, quiz_enabled,
                        emitted, sessions>>
         /\ UNCHANGED appVars

\* A category is picked on the categories page, or the quiz shown on the
\* results page is taken again.
LoadQuizStep ==
    /\ current_user # NoUser
    /\ \/ /\ page \in {"dashboard", "categories"}
          /\ \E category_id \in QuizCategories, limit \in QuizLimits :
                \E rows \in RandomRows(category_id, limit) :
                   \E outcome, cat_outcome \in Outcomes,
                      opening \in Openings :
                      load_quiz(category_id, rows, outcome, opening,
                                cat_outcome)
       \/ /\ page = "results"
          /\ \E rows \in RandomRows(results_page.category_id, 10) :
                \E outcome, cat_outcome \in Outcomes, opening \in Openings :
                   load_quiz(results_page.category_id, rows, outcome,
                             opening, cat_outcome)
    /\ UNCHANGED <<credVars, authVars, scoreVars>>
    /\ UNCHANGED <<viewVars, dbVars>>

\* The radio buttons the user checks: those of A and B.
Clicked == {0, 1}

\* The fates of the statements of one handler run on n questions: all
\* succeed, or the connection is lost with the INSERT of the first answer
\* row.
QuizFates(n) ==
    {[k \in 0..n |-> "ok"],
     [k \in 0..n |-> IF k = 1 THEN "lost" ELSE "ok"]}

\* The user checks a radio button.
SelectStep ==
    /\ page = "quiz" /\ quiz_enabled
    /\ checked' \in Clicked
    /\ UNCHANGED <<quiz_category_id, quiz_questions, current_index,
                   quiz_answers, quiz_enabled, prev_enabled, emitted,
                   sessions>>
    /\ UNCHANGED <<credVars, authVars, scoreVars, appVars>>
    /\ UNCHANGED <<viewVars, navVars, dbVars>>

\* The user clicks next_btn.
NextClickStep ==
    /\ page = "quiz" /\ quiz_enabled
    /\ \E reply \in {"Yes", "No"} :
          \E fate \in QuizFates(Len(quiz_questions)) :
             next_question(reply, fate)
    /\ UNCHANGED <<credVars, authVars, scoreVars>>
    /\ UNCHANGED <<viewVars, navVars, dbVars>>

\* The user clicks prev_btn.
PrevClickStep ==
    /\ page = "quiz" /\ prev_enabled
    /\ previous_question
    /\ UNCHANGED <<credVars, authVars, scoreVars>>
    /\ UNCHANGED <<viewVars, navVars, dbVars>>

\* The login page emits login_successful only while it is shown.
QuizLoginStep == page = "login" /\ LoginStep

NextQuiz ==
    QuizLoginStep \/ LoadQuizStep \/ SelectStep \/ NextClickStep
      \/ PrevClickStep

SpecQuiz == Init /\ [][NextQuiz]_vars

\* The user clicks next_btn; the server rejects the INSERT of the attempt
\* when the quiz is submitted.
NextClickRejectedStep ==
    /\ page = "quiz" /\ quiz_enabled
    /\ \E reply \in {"Yes", "No"} :
          next_question(reply,
                        [k \in 0..Len(quiz_questions) |->
                            IF k = 0 THEN "error" ELSE "ok"])
    /\ UNCHANGED <<credVars, authVars, scoreVars>>
    /\ UNCHANGED <<viewVars, navVars, dbVars>>

\* previous_question called on a quiz page that was loaded, whatever
\* prev_btn allows.
PrevCallStep ==
    /\ sessions > 0
    /\ previous_question
    /\ UNCHANGED <<credVars, authVars, scoreVars>>
    /\ UNCHANGED <<viewVars, navVars, dbVars>>

NextCalls ==
    QuizLoginStep \/ LoadQuizStep \/ SelectStep \/ NextClickRejectedStep
      \/ PrevCallStep

SpecCalls == Init /\ [][NextCalls]_vars

-----------------------------------------------------------------------------
(* SpecDb: the connection of DatabaseManager and the statements that go      *)
(* through execute (db.py)                                                   *)

\* What a DatabaseManager call that returns a bool returned; exc is the
\* exception it let through ("none" when it returned), sql the number of
\* statements it sent to the server.
DbResult(op, exc, value, outcome, sql) ==
    [op |-> op, raised |-> exc, value |-> value, data |-> <<>>,
     outcome |-> outcome, connected |-> is_connected, sql |-> sql]

\* What a call that returns a row, an id or a list returned: data is <<>>
\* for None and for the empty list, <<id>> for an id or the row of that id.
DbData(op, exc, data, outcome, sql) ==
    [op |-> op, raised |-> exc, value |-> data # <<>>, data |-> data,
     outcome |-> outcome, connected |-> is_connected, sql |-> sql]

\* DatabaseManager.connect. With a connection open it returns True. Otherwise
\* it has to open one, which ends as opening says: ValueError of load_config
\* and OperationalError are caught, _conn is set to None and False is
\* returned; ProgrammingError, which psycopg2 raises for the keyword `name`,
\* is not caught and _conn stays as it was.
connect(opening) ==
    /\ IF is_connected
       THEN /\ db_result' = DbResult("connect", "none", TRUE, opening, 0)
            /\ UNCHANGED conn
       ELSE IF opening = "ProgrammingError"
       THEN /\ db_result' = DbResult("connect", "ProgrammingError", FALSE,
                                      opening, 0)
            /\ UNCHANGED conn
       ELSE /\ db_result' = DbResult("connect", "none", FALSE, opening, 0)
            /\ conn' = "none"
    /\ UNCHANGED <<question_rows, quiz_attempt_answers>>

\* DatabaseManager.disconnect.
disconnect ==
    /\ db_result' = DbResult("disconnect", "none", FALSE, "ok", 0)
    /\ conn' = "none"
    /\ UNCHANGED <<question_rows, quiz_attempt_answers>>

\* A questions row, as far as the quiz reads it.
QuestionRow(category_id, correct_answer) ==
    [category_id |-> category_id, correct_answer |-> correct_answer]

\* The statements sent through execute.
UpdateQuestion(question_id, category_id, correct_answer) ==
    [kind |-> "UPDATE", question_id |-> question_id,
     row |-> QuestionRow(category_id, correct_answer)]

DeleteQuestion(question_id) ==
    [kind |-> "DELETE", question_id |-> question_id,
     row |-> QuestionRow(0, <<>>)]

\* The questions table after a statement that was committed: a statement
\* for an id without a row changes nothing.
QuestionsAfter(stmt) ==
    IF stmt.question_id \notin DOMAIN question_rows THEN question_rows
    ELSE IF stmt.kind = "UPDATE"
    THEN [question_rows EXCEPT ![stmt.question_id] = stmt.row]
    ELSE [id \in DOMAIN question_rows \ {stmt.question_id} |->
             question_rows[id]]

\* A plausible slip: no rollback, so that what a rejected statement did
\* before it failed is committed with the next statement.
execute_no_rollback(op, stmt, outcome) ==
    /\ is_connected
    /\ outcome # "lost"
    /\ db_result' = DbResult(op, "none", outcome = "ok", outcome, 1)
    /\ question_rows' = QuestionsAfter(stmt)
    /\ UNCHANGED <<conn, quiz_attempt_answers>>

\* DatabaseManager.execute for update_question and delete_question (op),
\* which return what it returns. It raises RuntimeError without a
\* connection; it returns True once the statement is committed; when the
\* statement or the commit fails it rolls back and returns False, also when
\* the rollback fails because the connection is lost.
execute(op, stmt, outcome) ==
    /\ IF ~is_connected
       THEN /\ db_result' = DbResult(op, "RuntimeError", FALSE, outcome, 0)
            /\ UNCHANGED <<conn, question_rows>>
       ELSE IF outcome = "ok"
       THEN /\ db_result' = DbResult(op, "none", TRUE, outcome, 1)
            /\ question_rows' = QuestionsAfter(stmt)
            /\ UNCHANGED conn
       ELSE /\ db_result' = DbResult(op, "none", FALSE, outcome, 1)
            /\ conn' = ConnAfter(outcome)
            /\ UNCHANGED question_rows
    /\ UNCHANGED quiz_attempt_answers

\* The questions the administrator edits, and an id without a row.
EditedIds == {1, 2} \cup ForeignIds

\* The correct answers the combo box of the admin page offers, two of them.
EditedAnswers == {<<"A">>, <<"C">>}

\* The per_question entries written as answer rows.
WrittenEntries ==
    {ScoreQuestion(Question(1, <<"A">>), (1 :> <<"A">>)),
     ScoreQuestion(Question(2, <<" ", "b">>), (2 :> <<"X">>))}

\* The database holds two questions and one attempt of user 1, written by an
\* earlier run; the DatabaseManager has no connection yet, or has one.
InitDb ==
    /\ conn \in {"none", "open"}
    /\ current_user = NoUser
    /\ page = "login"
    /\ dashboard_page = "none"
    /\ quiz_attempts =
         <<AttemptRow(1, 1, 1,
                      Score(<<Question(1, <<"A">>)>>, (1 :> <<"A">>)), 0, 1)>>
    /\ quiz_attempt_answers = <<>>
    /\ next_attempt_id = 2
    /\ calls = <<>>
    /\ raised = "none"
    /\ results_page = NoResults
    /\ submissions = 0
    /\ last_signal = [results |-> NoResults, user |-> NoUser]
    /\ db_result = NoDbResult
    /\ question_rows = (1 :> QuestionRow(1, <<"A">>))
                         @@ (2 :> QuestionRow(1, <<" ", "b">>))
    /\ next_question_id = 3
    /\ ResultsIdle
    /\ NavIdle
    /\ quiz_category_id = 0
    /\ quiz_questions = <<>>
    /\ current_index = 0
    /\ quiz_answers = <<>>
    /\ checked = -1
    /\ quiz_enabled = FALSE
    /\ prev_enabled = FALSE
    /\ emitted = 0
    /\ sessions = 0
    /\ CredIdle /\ AuthIdle /\ ScoreIdle

\* What SpecDb leaves alone.
DbUnchanged ==
    /\ UNCHANGED <<current_user, page, dashboard_page, quiz_attempts,
                   next_attempt_id, calls, raised, results_page, submissions,
                   last_signal, next_question_id>>
    /\ UNCHANGED <<credVars, authVars, scoreVars, viewVars, navVars, quizVars>>

ConnectStep ==
    /\ \E opening \in Openings : connect(opening)
    /\ DbUnchanged

DisconnectStep ==
    /\ disconnect
    /\ DbUnchanged

UpdateQuestionStep ==
    /\ \E question_id \in EditedIds, category_id \in QuizCategories,
          correct_answer \in EditedAnswers, outcome \in Outcomes :
          execute("update_question",
                  UpdateQuestion(question_id, category_id, correct_answer),
                  outcome)
    /\ DbUnchanged

DeleteQuestionStep ==
    /\ \E question_id \in EditedIds, outcome \in Outcomes :
          execute("delete_question", DeleteQuestion(question_id), outcome)
    /\ DbUnchanged

\* One add_attempt_answer call for the attempt in the database.
AddAnswerStep ==
    /\ Len(quiz_attempt_answers) < MaxQuestions
    /\ \E e \in WrittenEntries, outcome \in Outcomes :
          LET end == add_attempt_answer(
                         [conn |-> conn, answers |-> quiz_attempt_answers,
                          calls |-> <<>>, raised |-> "none"],
                         1, e, outcome)
          IN  /\ db_result' = DbResult("add_attempt_answer", end.raised,
                                       end.calls[1].returned = "True",
                                       outcome,
                                       IF is_connected THEN 1 ELSE 0)
              /\ conn' = end.conn
              /\ quiz_attempt_answers' = end.answers
    /\ UNCHANGED question_rows
    /\ DbUnchanged

NextDb ==
    ConnectStep \/ DisconnectStep \/ UpdateQuestionStep
      \/ DeleteQuestionStep \/ AddAnswerStep

SpecDb == InitDb /\ [][NextDb]_vars

-----------------------------------------------------------------------------
(* SpecHelpers: the query helpers and the INSERTs of DatabaseManager, called *)
(* with and without a connection (db.py)                                     *)

\* A plausible slip: the check returns where it should raise, and the call
\* goes on as the except clause of the helper then decides.
ensure_connection_quiet == "none"

\* DatabaseManager._ensure_connection: the exception it raises, "none" when
\* it returns.
ensure_connection == IF is_connected THEN "none" ELSE "RuntimeError"

\* DatabaseManager.fetch_one on the SELECT whose result set is rows.
fetch_one(rows, outcome) ==
    /\ IF ensure_connection # "none"
       THEN /\ db_result' = DbData("fetch_one", ensure_connection, <<>>,
                                      outcome, 0)
            /\ UNCHANGED conn
       ELSE IF outcome = "ok"
       THEN /\ db_result' = DbData("fetch_one", "none",
                                      IF rows = <<>> THEN <<>>
                                      ELSE <<rows[1]>>,
                                      outcome, 1)
            /\ UNCHANGED conn
       ELSE /\ db_result' = DbData("fetch_one", "none", <<>>, outcome, 1)
            /\ conn' = ConnAfter(outcome)
    /\ UNCHANGED <<question_rows, next_question_id, quiz_attempts,
                   next_attempt_id>>

\* DatabaseManager.fetch_all on the SELECT whose result set is rows.
fetch_all(rows, outcome) ==
    /\ IF ensure_connection # "none"
       THEN /\ db_result' = DbData("fetch_all", ensure_connection, <<>>,
                                      outcome, 0)
            /\ UNCHANGED conn
       ELSE IF outcome = "ok"
       THEN /\ db_result' = DbData("fetch_all", "none", rows, outcome, 1)
            /\ UNCHANGED conn
       ELSE /\ db_result' = DbData("fetch_all", "none", <<>>, outcome, 1)
            /\ conn' = ConnAfter(outcome)
    /\ UNCHANGED <<question_rows, next_question_id, quiz_attempts,
                   next_attempt_id>>

\* DatabaseManager.create_question. The sequence value of a rejected INSERT
\* is not handed out again.
create_question(category_id, correct_answer, outcome) ==
    /\ next_question_id <= MaxQuestions + 1
    /\ IF ensure_connection # "none"
       THEN /\ db_result' = DbData("create_question", ensure_connection,
                                      <<>>, outcome, 0)
            /\ UNCHANGED <<conn, question_rows, next_question_id>>
       ELSE IF outcome = "ok"
       THEN /\ db_result' = DbData("create_question", "none",
                                      <<next_question_id>>, outcome, 1)
            /\ question_rows' =
                 question_rows
                   @@ (next_question_id
                         :> QuestionRow(category_id, correct_answer))
            /\ next_question_id' = next_question_id + 1
            /\ UNCHANGED conn
       ELSE /\ db_result' = DbData("create_question", "none", <<>>,
                                      outcome, 1)
            /\ next_question_id' =
                 IF outcome = "lost" THEN next_question_id
                 ELSE next_question_id + 1
            /\ conn' = ConnAfter(outcome)
            /\ UNCHANGED question_rows
    /\ UNCHANGED <<quiz_attempts, next_attempt_id>>

\* DatabaseManager.create_quiz_attempt with the counts of sc.
create_quiz_attempt(user_id, category_id, sc, outcome) ==
    /\ next_attempt_id <= MaxSubmissions
    /\ IF ensure_connection # "none"
       THEN /\ db_result' = DbData("create_quiz_attempt",
                                      ensure_connection, <<>>, outcome, 0)
            /\ UNCHANGED <<conn, quiz_attempts, next_attempt_id>>
       ELSE IF outcome = "ok"
       THEN /\ db_result' = DbData("create_quiz_attempt", "none",
                                      <<next_attempt_id>>, outcome, 1)
            /\ quiz_attempts' =
                 Append(quiz_attempts,
                        AttemptRow(next_attempt_id, user_id, category_id,
                                   sc, 0, Len(quiz_attempts) + 1))
            /\ next_attempt_id' = next_attempt_id + 1
            /\ UNCHANGED conn
       ELSE /\ db_result' = DbData("create_quiz_attempt", "none", <<>>,
                                      outcome, 1)
            /\ next_attempt_id' =
                 IF outcome = "lost" THEN next_attempt_id
                 ELSE next_attempt_id + 1
            /\ conn' = ConnAfter(outcome)
            /\ UNCHANGED quiz_attempts
    /\ UNCHANGED <<question_rows, next_question_id>>

\* What the calls of SpecHelpers other than create_user leave alone.
HelpersUnchanged ==
    /\ UNCHANGED <<current_user, page, dashboard_page, quiz_attempt_answers,
                   calls, raised, results_page, submissions, last_signal>>
    /\ UNCHANGED <<credVars, authVars, scoreVars, viewVars, navVars, quizVars>>

\* get_question_by_id: one row at most, of which the id is kept.
FetchOneStep ==
    /\ \E question_id \in {1} \cup ForeignIds, outcome \in Outcomes :
          fetch_one(IF question_id \in DOMAIN question_rows
                    THEN <<question_id>> ELSE <<>>,
                    outcome)
    /\ HelpersUnchanged

\* The attempts of a user, as get_recent_attempts selects them; of each
\* row the id is kept.
FetchAllStep ==
    /\ \E user_id \in {1} \cup ForeignIds, outcome \in Outcomes :
          LET mine == SelectSeq(quiz_attempts,
                                LAMBDA r : r.user_id = user_id)
          IN  fetch_all([i \in 1..Len(mine) |-> mine[i].id], outcome)
    /\ HelpersUnchanged

\* delete_question(1), which is execute on its DELETE.
ExecuteStep ==
    /\ \E outcome \in Outcomes :
          execute("execute", DeleteQuestion(1), outcome)
    /\ UNCHANGED <<quiz_attempts, next_attempt_id, next_question_id>>
    /\ HelpersUnchanged

\* create_user, its return value copied to db_result: the INSERT is sent
\* once the connection, the user name and the password were checked.
CreateUserCallStep ==
    /\ \E username \in {al, <<" ">>}, outcome \in Outcomes :
          /\ create_user(username, hunter2, [i \in 1..SaltLen |-> 0],
                         outcome)
          /\ db_result' =
               DbData("create_user",
                        IF auth_result'.raised THEN "RuntimeError"
                        ELSE "none",
                        IF auth_result'.ok THEN <<auth_result'.id>>
                        ELSE <<>>,
                        outcome,
                        IF is_connected /\ Strip(username) # <<>>
                        THEN 1 ELSE 0)
    /\ UNCHANGED <<question_rows, next_question_id, quiz_attempts,
                   next_attempt_id>>
    /\ UNCHANGED <<current_user, page, dashboard_page, quiz_attempt_answers,
                   calls, raised, results_page, submissions, last_signal>>
    /\ UNCHANGED <<credVars, scoreVars, viewVars, navVars, quizVars>>

CreateQuestionStep ==
    /\ \E outcome \in Outcomes : create_question(1, <<"A">>, outcome)
    /\ HelpersUnchanged

CreateAttemptStep ==
    /\ \E outcome \in Outcomes :
          create_quiz_attempt(1, 1,
                              Score(<<Question(1, <<"A">>)>>,
                                    (1 :> <<"B">>)),
                              outcome)
    /\ HelpersUnchanged

HelperDisconnectStep ==
    /\ disconnect
    /\ DbUnchanged

NextHelpers ==
    HelperDisconnectStep \/ FetchOneStep \/ FetchAllStep \/ ExecuteStep
      \/ CreateUserCallStep \/ CreateQuestionStep \/ CreateAttemptStep

SpecHelpers == InitDb /\ [][NextHelpers]_vars

-----------------------------------------------------------------------------
(* SpecNav: the navigation handlers of the main window (main.py). A handler *)
(* does not look at the page that is shown: the signals connected to it are *)
(* delivered whenever they are emitted.                                     *)

\* A plausible slip: show_dashboard looks for a dashboard only, not for a
\* user.
show_dashboard_unchecked(fate) ==
    /\ IF dashboard_page = "none"
       THEN /\ page' = "login"
            /\ last_nav' = Nav("show_dashboard", "none")
            /\ UNCHANGED conn
       ELSE /\ page' = "dashboard"
            /\ last_nav' = Nav("show_dashboard", "none")
            /\ UNCHANGED conn
    /\ UNCHANGED <<current_user, dashboard_page, quiz_attempts,
                   quiz_attempt_answers, next_attempt_id, calls, raised,
                   results_page, submissions, last_signal>>

\* QuizApp.show_dashboard; fate is how the refresh of the dashboard goes.
\* A dashboard that was removed from the stack is a deleted widget:
\* setCurrentWidget raises RuntimeError on it.
show_dashboard(fate) ==
    /\ IF dashboard_page = "none" \/ current_user = NoUser
       THEN /\ page' = "login"
            /\ last_nav' = Nav("show_dashboard", "none")
            /\ UNCHANGED conn
       ELSE IF dashboard_page = "removed"
       THEN /\ last_nav' = Nav("show_dashboard", "RuntimeError")
            /\ UNCHANGED <<page, conn>>
       ELSE LET shown == refresh(current_user[1], fate) IN
            /\ page' = "dashboard"
            /\ conn' = shown.conn
            /\ last_nav' = Nav("show_dashboard", shown.raised)
    /\ UNCHANGED <<current_user, dashboard_page, quiz_attempts,
                   quiz_attempt_answers, next_attempt_id, calls, raised,
                   results_page, submissions, last_signal>>

\* QuizApp.show_categories.
show_categories(opening, outcome) ==
    /\ conn' = load_categories(conn, opening, outcome)
    /\ page' = "categories"
    /\ last_nav' = Nav("show_categories", "none")
    /\ UNCHANGED <<current_user, dashboard_page, quiz_attempts,
                   quiz_attempt_answers, next_attempt_id, calls, raised,
                   results_page, submissions, last_signal>>

\* QuizApp.show_admin. AdminWidget.refresh returns early when connect()
\* returns False and lets through what connect() raises; with a connection
\* it sends the SELECTs of get_categories and list_questions, and when the
\* connection is lost with the first, the second raises RuntimeError. The
\* admin page is shown when refresh returns.
show_admin(opening, fate) ==
    /\ IF ~is_connected /\ opening = "ProgrammingError"
       THEN /\ last_nav' = Nav("show_admin", "ProgrammingError")
            /\ UNCHANGED <<page, conn>>
       ELSE IF ~is_connected
       THEN /\ last_nav' = Nav("show_admin", "none")
            /\ conn' = "none"
            /\ page' = "admin"
       ELSE IF fate = "lost_early"
       THEN /\ last_nav' = Nav("show_admin", "RuntimeError")
            /\ conn' = "closed"
            /\ UNCHANGED page
       ELSE /\ last_nav' = Nav("show_admin", "none")
            /\ conn' = IF fate = "ok" THEN conn ELSE "closed"
            /\ page' = "admin"
    /\ UNCHANGED <<current_user, dashboard_page, quiz_attempts,
                   quiz_attempt_answers, next_attempt_id, calls, raised,
                   results_page, submissions, last_signal>>

\* What the handlers that only navigate leave alone.
NavUnchanged ==
    UNCHANGED <<credVars, authVars, scoreVars, viewVars, quizVars, dbVars>>

\* back_clicked of the categories page and the admin page, or
\* back_to_dashboard_clicked of the results page.
ShowDashboardStep ==
    /\ \E fate \in RefreshFates : show_dashboard(fate)
    /\ NavUnchanged

\* browse_categories_clicked of the dashboard, back_clicked of the quiz
\* page, or back_to_categories_clicked of the results page.
ShowCategoriesStep ==
    /\ \E opening \in Openings, outcome \in Outcomes :
          show_categories(opening, outcome)
    /\ NavUnchanged

\* manage_questions_clicked of the dashboard.
ShowAdminStep ==
    /\ dashboard_page # "none"
    /\ \E opening \in Openings, fate \in RefreshFates :
          show_admin(opening, fate)
    /\ NavUnchanged

NextNav ==
    LoginStep \/ LogoutStep \/ ShowDashboardStep \/ ShowCategoriesStep
      \/ ShowAdminStep \/ LoadQuizStep \/ NextClickRejectedStep

SpecNav == Init /\ [][NextNav]_vars

-----------------------------------------------------------------------------
(* Claims about the credential helpers, checked under SpecCred *)

\* The strings _hash_password has returned for the password so far.
HashOutputs == {hashes[i].out : i \in 1..Len(hashes)}

\* The number of "$" in a string.
CountSep(s) == Cardinality({i \in 1..Len(s) : s[i] = "$"})

\* A stored value that starts with the tag and is malformed: it has not
\* exactly three "$"-separated fields, or its salt or key field is text
\* bytes.fromhex rejects (a character that is no hexadecimal digit, or a
\* digit without its pair).
Malformed(st) ==
    /\ StartsWith(st, TagPrefix)
    /\ \/ CountSep(st) # 2
       \/ LET parts == Split(st, "$", 2) IN
          ~FromHex(parts[2]).ok \/ ~FromHex(parts[3]).ok

\* C1: every string _hash_password(p) returns starts with the tag, has
\* exactly three fields, and _verify_password(p, that string) returns True.
C1_HashThenVerify ==
    /\ \A h \in HashOutputs :
          StartsWith(h, TagPrefix) /\ Len(Split(h, "$", 2)) = 3
    /\ (verified.done /\ verified.password = password
            /\ verified.stored \in HashOutputs)
          => (~verified.raised /\ verified.value)

\* The password hunter2 was hashed and verified against its own hash.
C1_Witness ==
    /\ password = hunter2
    /\ verified.done /\ verified.password = password
    /\ verified.stored \in HashOutputs
    /\ verified.value

\* C2: for p2 # p1, _verify_password(p2, _hash_password(p1)) returns False.
C2_OtherPasswordRejected ==
    (verified.done /\ verified.password # password
        /\ verified.stored \in HashOutputs)
      => (~verified.raised /\ ~verified.value)

\* Hunter2 was verified against a hash of hunter2 and rejected.
C2_Witness ==
    /\ password = hunter2
    /\ verified.done /\ verified.password = <<"H", "u", "n", "t", "e", "r", "2">>
    /\ verified.stored \in HashOutputs
    /\ ~verified.value

\* C3: for a stored value that does not start with the tag,
\* _verify_password(password, stored) returns True exactly when the password
\* equals the stored value.
C3_LegacyExactMatch ==
    (verified.done /\ ~StartsWith(verified.stored, TagPrefix))
      => (~verified.raised
            /\ (verified.value <=> verified.password = verified.stored))

\* verify("hunter2", "hunter2") was called and returned True.
C3_Witness ==
    /\ verified.done
    /\ verified.stored = hunter2 /\ verified.password = hunter2
    /\ verified.value

\* C4: for a stored value that starts with the tag and is malformed,
\* _verify_password raises nothing and returns False, whatever the password.
C4_MalformedIsFalse ==
    (verified.done /\ Malformed(verified.stored))
      => (~verified.raised /\ ~verified.value)

\* The password hunter2 was verified against its own credential with one
\* more "$" field appended.
C4_Witness ==
    /\ verified.done /\ verified.password = hunter2
    /\ verified.stored \in {ExtraField(hunter2, salt) : salt \in Salts}
    /\ Malformed(verified.stored)
    /\ ~verified.value

\* C6 as stated: any two calls of _hash_password on the same password return
\* different strings.
C6_AlwaysDifferent ==
    \A i, j \in 1..Len(hashes) : i # j => hashes[i].out # hashes[j].out

\* C6 as amended: two calls of _hash_password on the same password whose
\* draws of the salt differ return different strings, and every string
\* returned verifies against the password.
C6_DifferentSaltsDifferentHashes ==
    /\ \A i, j \in 1..Len(hashes) :
          hashes[i].salt # hashes[j].salt => hashes[i].out # hashes[j].out
    /\ (verified.done /\ verified.password = password
            /\ verified.stored \in HashOutputs)
          => verified.value

\* Two calls drew different salts, and the string of the first call was
\* verified after the second call.
C6_Witness ==
    /\ Len(hashes) = 2
    /\ hashes[1].salt # hashes[2].salt
    /\ hashes[1].out # hashes[2].out
    /\ verified.done /\ verified.password = password
    /\ verified.stored = hashes[1].out
    /\ verified.value

-----------------------------------------------------------------------------
(* Claims about the users table, checked under SpecAuth *)

\* Every row create_user inserted holds a tagged credential that is not the
\* password it was given.
CreatedRowsAreTagged ==
    \A i \in 1..Len(users) :
        users[i].written_by = "create_user"
          => /\ StartsWith(users[i].password_hash, TagPrefix)
             /\ users[i].password_hash # users[i].password

\* C5: after any sequence of create_user and authenticate_user calls every
\* users row this program wrote holds a tagged credential, never the
\* password, and no authenticate_user call changes the users table.
C5_TaggedAndNeverRewritten ==
    /\ []CreatedRowsAreTagged
    /\ [][AuthenticateStep => users' = users]_vars

\* An account was created by this program, and after that the account of the
\* earlier version logged in with its plain-text credential.
C5_Witness ==
    /\ \E i \in 1..Len(users) : users[i].written_by = "create_user"
    /\ \E i \in 1..Len(users) :
          /\ users[i].written_by = "legacy"
          /\ users[i].password_hash = hunter2
          /\ auth_result = Returned("authenticate_user", TRUE, users[i].id)

\* C18: every authenticate_user(username, password) call made with a
\* connection returns without raising and leaves the users table as it was;
\* it returns the id of the row (with its user name) exactly when the SELECT
\* succeeded, a users row has that user name and _verify_password(password,
\* the row's credential) is True, and None in every other case.
C18_AuthenticateExactly ==
    [][\A username \in Usernames \cup {old}, pw \in TypedPasswords,
          outcome \in Outcomes :
          (is_connected /\ authenticate_user(username, pw, outcome)) =>
              LET matching ==
                      {i \in 1..Len(users) :
                          /\ users[i].username = username
                          /\ _verify_password(pw, users[i].password_hash).value}
              IN  /\ users' = users
                  /\ ~auth_result'.raised
                  /\ auth_result'.ok <=> (outcome = "ok" /\ matching # {})
                  /\ auth_result'.ok =>
                        \E i \in matching : users[i].id = auth_result'.id
                  /\ ~auth_result'.ok => auth_result'.id = 0]_vars

\* An account this program created has logged in.
C18_Witness ==
    /\ auth_result.op = "authenticate_user"
    /\ auth_result.ok
    /\ \E i \in 1..Len(users) :
          /\ users[i].id = auth_result.id
          /\ users[i].written_by = "create_user"

-----------------------------------------------------------------------------
(* Claims about the scoring loop, checked under SpecScore *)

\* Equality after trimming white space and ignoring case.
SameLetter(a, b) == Upper(Strip(a)) = Upper(Strip(b))

\* C7: a question whose id has no entry in the answers mapping is not
\* correct and its selected letter is recorded as null; a question with an
\* entry is correct exactly when the selection equals its correct letter
\* after trimming white space and ignoring case; correct_count is the number
\* of correct questions.
C7_PerQuestionScoring ==
    scored.done =>
      /\ Len(scored.per_question) = Len(sc_questions)
      /\ \A i \in 1..Len(sc_questions) :
            LET q == sc_questions[i]
                e == scored.per_question[i]
            IN  /\ e.question_id = q.id
                /\ q.id \notin DOMAIN sc_answers
                     => (~e.is_correct /\ e.selected_letter = None)
                /\ q.id \in DOMAIN sc_answers
                     => (e.is_correct
                           <=> SameLetter(sc_answers[q.id], q.correct_answer))
      /\ scored.correct_count =
           Cardinality({i \in 1..Len(sc_questions) :
                          scored.per_question[i].is_correct})

\* Question 2 (correct answer " b") was answered "b " and scored correct,
\* and question 1 was left unanswered and scored not correct.
C7_Witness ==
    /\ scored.done
    /\ sc_questions = <<Question(2, <<" ", "b">>), Question(1, <<"A">>)>>
    /\ 2 \in DOMAIN sc_answers /\ sc_answers[2] = <<"b", " ">>
    /\ 1 \notin DOMAIN sc_answers
    /\ scored.per_question[1].is_correct
    /\ ~scored.per_question[2].is_correct
    /\ scored.correct_count = 1

-----------------------------------------------------------------------------
(* Claims about the submission handler, checked under Spec *)

\* The last quiz_completed signal was handled with a user logged in.
LastUserId == last_signal.user[1]

\* The ids of the questions of the last signal's question list.
LastQuestionIds ==
    {last_signal.results.questions[i].id :
        i \in 1..Len(last_signal.results.questions)}

\* The quiz_attempts rows written for the last signal.
LastAttemptRows ==
    {i \in 1..Len(quiz_attempts) : quiz_attempts[i].submission = submissions}

AllCallsSucceeded ==
    \A k \in 1..Len(calls) : calls[k].returned \in {"id", "True"}

\* The last signal was a valid submission: a user logged in, a category id
\* above 0, at least one question.
LastSubmissionValid ==
    /\ submissions > 0
    /\ last_signal.user # NoUser
    /\ last_signal.results.category_id > 0
    /\ Len(last_signal.results.questions) > 0

\* C9: a valid submission of N questions whose inserts all succeed makes
\* exactly one create_quiz_attempt call followed by exactly N
\* add_attempt_answer calls, one per question in the order of the list, each
\* with the attempt id that create_quiz_attempt returned; and in every state
\* every answer row references an attempt row that was written for the same
\* submission and committed before it, attempt ids being unique.
C9_OneAttemptThenItsAnswers ==
    /\ (LastSubmissionValid /\ AllCallsSucceeded)
         => LET qs == last_signal.results.questions IN
            /\ Len(calls) = Len(qs) + 1
            /\ calls[1].op = "create_quiz_attempt"
            /\ \A k \in 1..Len(qs) :
                  /\ calls[k + 1].op = "add_attempt_answer"
                  /\ calls[k + 1].attempt_id = calls[1].id
                  /\ calls[k + 1].question_id = qs[k].id
            /\ \E i \in LastAttemptRows : quiz_attempts[i].id = calls[1].id
            /\ Cardinality(LastAttemptRows) = 1
            /\ Cardinality({j \in 1..Len(quiz_attempt_answers) :
                              quiz_attempt_answers[j].submission = submissions})
                 = Len(qs)
    /\ \A j \in 1..Len(quiz_attempt_answers) :
          \E i \in 1..Len(quiz_attempts) :
              /\ quiz_attempts[i].id = quiz_attempt_answers[j].attempt_id
              /\ quiz_attempts[i].submission
                   = quiz_attempt_answers[j].submission
              /\ quiz_attempts[i].seq < quiz_attempt_answers[j].seq
    /\ \A i, j \in 1..Len(quiz_attempts) :
          i # j => quiz_attempts[i].id # quiz_attempts[j].id

\* The second submission was a valid one of two questions whose three
\* inserts succeeded, after a first submission that was recorded too.
C9_Witness ==
    /\ submissions = 2
    /\ LastSubmissionValid /\ AllCallsSucceeded
    /\ Len(last_signal.results.questions) = 2
    /\ Len(calls) = 3
    /\ Len(quiz_attempts) = 2
    /\ Len(quiz_attempt_answers) > 2

\* C10 as stated: a submission with user id 0 or category id 0 makes no
\* create_quiz_attempt and no add_attempt_answer call and raises nothing.
C10_IdZeroIsNoOp ==
    (/\ submissions > 0
     /\ \/ (last_signal.user # NoUser /\ LastUserId = 0)
        \/ last_signal.results.category_id = 0)
      => (calls = <<>> /\ raised = "none")

\* The last run of on_quiz_completed called create_quiz_attempt and got None.
LastAttemptInsertFailed ==
    /\ submissions > 0
    /\ calls # <<>>
    /\ calls[1].op = "create_quiz_attempt"
    /\ calls[1].returned = "None"

\* C13: when create_quiz_attempt returned None, the handler made no
\* add_attempt_answer call, and no quiz_attempts or quiz_attempt_answers row
\* of that submission exists.
C13_FailedAttemptRecordsNothing ==
    LastAttemptInsertFailed =>
        /\ Len(calls) = 1
        /\ \A i \in 1..Len(quiz_attempts) :
              quiz_attempts[i].submission # submissions
        /\ \A i \in 1..Len(quiz_attempt_answers) :
              quiz_attempt_answers[i].submission # submissions

\* The attempt INSERT of a submission with questions failed, after an
\* earlier submission was recorded.
C13_Witness ==
    /\ LastAttemptInsertFailed
    /\ last_signal.results.questions # <<>>
    /\ quiz_attempts # <<>>

\* C14 as stated: when create_quiz_attempt returned an id, the attempt row
\* stays committed, add_attempt_answer is called once per question with that
\* id whether or not an earlier answer INSERT failed, each call reaches its
\* INSERT, and every answer row whose INSERT succeeded stays committed.
C14_PartialFailureContinues ==
    (submissions > 0 /\ calls # <<>> /\ calls[1].returned = "id") =>
        LET questions == last_signal.results.questions
            attempt_id == calls[1].id
        IN  /\ \E i \in 1..Len(quiz_attempts) :
                  /\ quiz_attempts[i].id = attempt_id
                  /\ quiz_attempts[i].submission = submissions
            /\ Len(calls) = 1 + Len(questions)
            /\ \A k \in 1..Len(questions) :
                  /\ calls[k + 1].op = "add_attempt_answer"
                  /\ calls[k + 1].attempt_id = attempt_id
                  /\ calls[k + 1].question_id = questions[k].id
                  /\ calls[k + 1].returned \in {"True", "False"}
                  /\ calls[k + 1].returned = "True" =>
                        \E i \in 1..Len(quiz_attempt_answers) :
                            /\ quiz_attempt_answers[i].attempt_id = attempt_id
                            /\ quiz_attempt_answers[i].question_id
                                 = questions[k].id

\* The letters of the four options.
OptionLetters == {<<"A">>, <<"B">>, <<"C">>, <<"D">>}

\* The questions of the last submission whose selection, trimmed and in
\* upper case, is none of A, B, C, D.
OutsideSelections ==
    LET r == last_signal.results IN
    {k \in 1..Len(r.questions) :
        /\ r.questions[k].id \in DOMAIN r.answers
        /\ Upper(Strip(r.answers[r.questions[k].id])) \notin OptionLetters}

\* C16: a selection that is none of A, B, C, D (after trimming, in any case)
\* raises nothing in on_quiz_completed: an exception leaves the handler only
\* from a database call; and the question is recorded as not correct in
\* every row written for it, which is written whenever the calls succeed.
C16_OutsideSelectionIsWrong ==
    (submissions > 0 /\ OutsideSelections # {}) =>
        /\ raised # "none" =>
              calls # <<>> /\ calls[Len(calls)].returned = "raised"
        /\ \A k \in OutsideSelections :
              LET q_id == last_signal.results.questions[k].id
                  rows == {i \in 1..Len(quiz_attempt_answers) :
                             /\ quiz_attempt_answers[i].submission
                                  = submissions
                             /\ quiz_attempt_answers[i].question_id = q_id}
              IN  /\ \A i \in rows : ~quiz_attempt_answers[i].is_correct
                  /\ (LastSubmissionValid /\ AllCallsSucceeded) => rows # {}

\* A submission with the selection X for a question was recorded.
C16_Witness ==
    /\ submissions > 0
    /\ OutsideSelections # {}
    /\ LastSubmissionValid
    /\ AllCallsSucceeded
    /\ \E i \in 1..Len(quiz_attempt_answers) :
          /\ quiz_attempt_answers[i].submission = submissions
          /\ quiz_attempt_answers[i].selected_letter = Some(<<"X">>)

\* C12 as stated: whatever happens in the persistence step, every run of
\* on_quiz_completed ends with the results page loaded with the submitted
\* results and shown, and lets no exception escape.
C12_ResultsAlwaysShown ==
    [][submissions' # submissions =>
          /\ raised' = "none"
          /\ page' = "results"
          /\ results_page' = last_signal'.results]_vars

-----------------------------------------------------------------------------
(* Claims about the result screen and the statistics, checked under        *)
(* SpecResults                                                             *)

\* The last quiz_completed signal carried no questions and no answers.
LastSubmissionEmpty ==
    /\ submissions > 0
    /\ last_signal.results.questions = <<>>
    /\ last_signal.results.answers = <<>>

\* C11: an empty question list with empty answers scores total_questions 0,
\* correct_count 0 and answered_count 0; nothing is persisted for it; the
\* result screen computes 0 of 0 and a percentage of 0 for it; and the
\* statistics of a user without attempts are 0 attempts, best 0 and last 0.
C11_EmptyBoundary ==
    /\ LastSubmissionEmpty =>
          /\ scored.total_questions = 0
          /\ scored.correct_count = 0
          /\ scored.answered_count = 0
          /\ calls = <<>>
          /\ raised = "none"
          /\ \A i \in 1..Len(quiz_attempts) :
                quiz_attempts[i].submission # submissions
          /\ \A i \in 1..Len(quiz_attempt_answers) :
                quiz_attempt_answers[i].submission # submissions
    /\ (score_data.done /\ score_data.results.questions = <<>>) =>
          /\ score_data.total = 0
          /\ score_data.correct = 0
          /\ score_data.percentage.num = 0
    /\ (attempt_stats.done /\ ~attempt_stats.raised
          /\ attempt_stats.rows = <<>>) =>
          /\ attempt_stats.total_attempts = 0
          /\ attempt_stats.best_percent = 0
          /\ attempt_stats.last_percent = 0

\* A logged-in user submitted the empty quiz, the result screen showed it and
\* the dashboard computed the statistics of a user without attempts.
C11_Witness ==
    /\ LastSubmissionEmpty
    /\ last_signal.user # NoUser
    /\ last_signal.results.category_id > 0
    /\ score_data.done /\ score_data.results.questions = <<>>
    /\ attempt_stats.done /\ ~attempt_stats.raised
    /\ attempt_stats.rows = <<>>

\* round(num / den) with ties rounded half up, for num >= 0 and den > 0.
RoundHalfUp(num, den) == (2 * num + den) \div (2 * den)

\* C17 as stated: for an attempt with total_questions > 0, the percentage the
\* result screen computes is the integer round(correct / total * 100) with
\* ties rounded half up, and so are the best and the last percent the
\* statistics compute from the rows of a user when their SELECTs succeed.
C17_PercentRoundedHalfUp ==
    /\ (score_data.done /\ score_data.total > 0) =>
          score_data.percentage.num =
              RoundHalfUp(score_data.correct * 100, score_data.total)
                * score_data.percentage.den
    /\ (attempt_stats.done /\ ~attempt_stats.raised
          /\ attempt_stats.rows # <<>>
          /\ \A k \in 1..3 : attempt_stats.fate[k] = "ok") =>
          LET rows == attempt_stats.rows
              half_up(i) == RoundHalfUp(rows[i].correct_count * 100,
                                        rows[i].total_questions)
          IN  /\ attempt_stats.last_percent = half_up(Len(rows))
              /\ attempt_stats.best_percent
                   = Max({half_up(i) : i \in 1..Len(rows)})

-----------------------------------------------------------------------------
(* Claims about the quiz page, checked under SpecQuiz *)

\* Every quiz_attempts row present before a step is there, unchanged and at
\* its place, after it.
AttemptRowsKept ==
    /\ Len(quiz_attempts') >= Len(quiz_attempts)
    /\ \A i \in 1..Len(quiz_attempts) : quiz_attempts'[i] = quiz_attempts[i]

\* C15: within one quiz session started by load_quiz, quiz_completed is
\* emitted at most once; a quiz_attempts row is inserted only by a step that
\* emits the session's one signal, and one row at most; and no step changes
\* or removes a quiz_attempts row that exists.
C15_AttemptCreatedOnce ==
    /\ [](emitted <= 1)
    /\ [][/\ AttemptRowsKept
          /\ Len(quiz_attempts') # Len(quiz_attempts) =>
                /\ Len(quiz_attempts') = Len(quiz_attempts) + 1
                /\ emitted = 0 /\ emitted' = 1
                /\ sessions' = sessions]_vars

\* Two sessions were submitted, each of them once, and each has its
\* quiz_attempts row.
C15_Witness ==
    /\ sessions = 2
    /\ emitted = 1
    /\ Len(quiz_attempts) = 2
    /\ quiz_attempts[1].submission = 1
    /\ quiz_attempts[2].submission = 2

-----------------------------------------------------------------------------
(* Claims about the connection and execute, checked under SpecDb *)

\* C19 as stated: connect() never raises and returns True exactly when a
\* connection is open afterwards; with a connection open it returns True and
\* keeps that connection; when it returns False, is_connected() is False
\* afterwards; and after disconnect() is_connected() is False.
C19_ConnectReportsConnection ==
    [][/\ ConnectStep =>
             /\ db_result'.raised = "none"
             /\ db_result'.value <=> (conn' = "open")
             /\ is_connected => (db_result'.value /\ conn' = conn)
       /\ DisconnectStep => conn' # "open"]_vars

\* The tables a statement sent through execute can change.
TablesUnchanged ==
    /\ question_rows' = question_rows
    /\ quiz_attempt_answers' = quiz_attempt_answers

\* What a committed statement of the step leaves in the tables, for the
\* call db_result' describes.
StatementCommitted ==
    \/ /\ UpdateQuestionStep
       /\ \E question_id \in EditedIds, category_id \in QuizCategories,
             correct_answer \in EditedAnswers :
             /\ question_id \in DOMAIN question_rows =>
                   /\ question_id \in DOMAIN question_rows'
                   /\ question_rows'[question_id]
                        = QuestionRow(category_id, correct_answer)
             /\ \A id \in DOMAIN question_rows \ {question_id} :
                   /\ id \in DOMAIN question_rows'
                   /\ question_rows'[id] = question_rows[id]
             /\ DOMAIN question_rows' = DOMAIN question_rows
    \/ /\ DeleteQuestionStep
       /\ \E question_id \in EditedIds :
             /\ DOMAIN question_rows' = DOMAIN question_rows \ {question_id}
             /\ \A id \in DOMAIN question_rows' :
                   question_rows'[id] = question_rows[id]
    \/ /\ AddAnswerStep
       /\ Len(quiz_attempt_answers') = Len(quiz_attempt_answers) + 1
       /\ SubSeq(quiz_attempt_answers', 1, Len(quiz_attempt_answers))
            = quiz_attempt_answers
       /\ quiz_attempt_answers'[Len(quiz_attempt_answers')].attempt_id = 1

\* C20: a call of update_question, delete_question or add_attempt_answer
\* made with a connection does not raise; it returns True exactly when its
\* statement and the commit succeeded, and then the tables hold what the
\* statement did; it returns False when they failed, also when the rollback
\* failed with the connection lost, and then the tables are as before.
C20_ExecuteReportsCommit ==
    [][(UpdateQuestionStep \/ DeleteQuestionStep \/ AddAnswerStep) =>
          (db_result'.connected =>
              /\ db_result'.raised = "none"
              /\ db_result'.value <=> (db_result'.outcome = "ok")
              /\ db_result'.value => StatementCommitted
              /\ ~db_result'.value => TablesUnchanged)]_vars

\* An UPDATE was rejected after another statement had been committed and
\* an answer row written.
C20_Witness ==
    /\ db_result.op = "update_question"
    /\ db_result.connected
    /\ ~db_result.value
    /\ db_result.outcome = "error"
    /\ 2 \notin DOMAIN question_rows
    /\ quiz_attempt_answers # <<>>

-----------------------------------------------------------------------------
(* Claims about calls made without a connection, checked under SpecHelpers *)

\* A call of fetch_one, fetch_all, execute, create_user, create_question or
\* create_quiz_attempt.
HelperCall ==
    \/ FetchOneStep \/ FetchAllStep \/ ExecuteStep
    \/ CreateUserCallStep \/ CreateQuestionStep \/ CreateAttemptStep

\* C21: fetch_one, fetch_all, execute, create_user, create_question and
\* create_quiz_attempt, called while there is no open connection, raise
\* RuntimeError before any SQL is sent: no statement goes to the server, and
\* the tables, their sequences and the connection are as before.
C21_NoConnectionRaises ==
    [][(HelperCall /\ ~is_connected) =>
          /\ db_result'.raised = "RuntimeError"
          /\ db_result'.sql = 0
          /\ db_result'.op = "create_user" => auth_result'.raised
          /\ UNCHANGED <<conn, users, next_user_id, question_rows,
                         next_question_id, quiz_attempts, next_attempt_id,
                         quiz_attempt_answers>>]_vars

\* create_quiz_attempt raised RuntimeError on a connection that an earlier
\* statement had lost, after a user had been created.
C21_Witness ==
    /\ db_result.op = "create_quiz_attempt"
    /\ ~db_result.connected
    /\ db_result.raised = "RuntimeError"
    /\ conn = "closed"
    /\ users # <<>>

-----------------------------------------------------------------------------
(* Claims about navigation, checked under SpecNav *)

\* C22: the dashboard is the current page only while a user is logged in;
\* show_dashboard shows the login page whenever current_user is None or no
\* dashboard exists; and while nobody is logged in, only on_login_success
\* makes the dashboard the current page.
C22_DashboardOnlyWhileLoggedIn ==
    /\ [](page = "dashboard" => current_user # NoUser)
    /\ [][/\ (ShowDashboardStep
               /\ (current_user = NoUser \/ dashboard_page = "none"))
              => page' = "login"
          /\ (current_user = NoUser /\ page' = "dashboard")
              => last_nav'.handler = "on_login_success"]_vars

\* After a login and a logout, with the dashboard of that login still in
\* the stack, show_dashboard ran and the login page is shown.
C22_Witness ==
    /\ last_nav = Nav("show_dashboard", "none")
    /\ current_user = NoUser
    /\ dashboard_page = "stacked"
    /\ page = "login"

-----------------------------------------------------------------------------
(* Claims about the methods of the quiz page, checked under SpecCalls *)

\* C23: while the quiz page holds a question list that is not empty,
\* 0 <= current_index <= len(questions) - 1; previous_question at index 0
\* changes nothing; and next_question at the last index does not change the
\* index.
C23_IndexWithinQuestions ==
    /\ [](quiz_questions # <<>> =>
             /\ 0 <= current_index
             /\ current_index <= Len(quiz_questions) - 1)
    /\ [][/\ (PrevCallStep /\ quiz_questions # <<>> /\ current_index = 0)
              => UNCHANGED <<appVars, quizVars>>
          /\ (NextClickRejectedStep
                /\ current_index = Len(quiz_questions) - 1)
              => current_index' = current_index]_vars

\* A quiz of two questions is at its last question, the answer to the first
\* saved, and the user has declined to submit: the second has no answer.
C23_Witness ==
    /\ Len(quiz_questions) = 2
    /\ current_index = 1
    /\ quiz_enabled
    /\ emitted = 0
    /\ DOMAIN quiz_answers = {quiz_questions[1].id}
    /\ checked = -1

-----------------------------------------------------------------------------
(* Claims about the answers of the quiz page, checked under SpecQuiz *)

\* The ids of the questions the quiz page holds.
LoadedQuestionIds == {quiz_questions[i].id : i \in 1..Len(quiz_questions)}

\* C24: each key of QuizWidget.answers is the id of a question of the list
\* that is loaded and each value is one of A, B, C, D; load_quiz empties
\* answers; and the results a session emits hold the questions and the
\* answers of that session.
C24_AnswersBelongToQuiz ==
    /\ [](/\ DOMAIN quiz_answers \subseteq LoadedQuestionIds
          /\ \A k \in DOMAIN quiz_answers : quiz_answers[k] \in OptionLetters
          /\ emitted > 0 =>
                /\ last_signal.results.questions = quiz_questions
                /\ last_signal.results.answers = quiz_answers)
    /\ [][LoadQuizStep => quiz_answers' = <<>>]_vars

\* The first session was loaded with question 2 alone and answered it; the
\* second was loaded with both questions and submitted with an answer to
\* question 1 only.
C24_Witness ==
    /\ sessions = 2
    /\ emitted = 1
    /\ Len(quiz_attempts) = 2
    /\ quiz_attempts[1].total_questions = 1
    /\ \E i \in 1..Len(quiz_attempt_answers) :
          /\ quiz_attempt_answers[i].attempt_id = quiz_attempts[1].id
          /\ quiz_attempt_answers[i].question_id = 2
          /\ quiz_attempt_answers[i].selected_letter.some
    /\ LoadedQuestionIds = {1, 2}
    /\ DOMAIN last_signal.results.answers = {1}

\* The quiz_attempt_answers rows of the attempt with this id.
AnswerRowsOf(attempt_id) ==
    {j \in 1..Len(quiz_attempt_answers) :
        quiz_attempt_answers[j].attempt_id = attempt_id}

\* C25: every attempt persisted from a session of the quiz page has
\* 0 <= correct_count <= answered_count <= total_questions, and when all its
\* answer rows were inserted, the number of them with is_correct = true is
\* its correct_count.
C25_CountsOrdered ==
    \A i \in 1..Len(quiz_attempts) :
       LET a == quiz_attempts[i]
           rows == AnswerRowsOf(a.id)
       IN  /\ 0 <= a.correct_count
           /\ a.correct_count <= a.answered_count
           /\ a.answered_count <= a.total_questions
           /\ Cardinality(rows) = a.total_questions =>
                 Cardinality({j \in rows :
                                 quiz_attempt_answers[j].is_correct})
                   = a.correct_count

\* An attempt on two questions with both answered, one of them right, and
\* both answer rows written.
C25_Witness ==
    \E i \in 1..Len(quiz_attempts) :
       /\ quiz_attempts[i].total_questions = 2
       /\ quiz_attempts[i].answered_count = 2
       /\ quiz_attempts[i].correct_count = 1
       /\ Cardinality(AnswerRowsOf(quiz_attempts[i].id)) = 2

-----------------------------------------------------------------------------
(* Claims about a quiz that cannot be loaded, checked under SpecNav *)

=============================================================================
